---------------------------- MODULE Spec2Model ----------------------------
(***************************************************************************)
(* Join-request verification workflow of super_bot.py.                     *)
(*                                                                         *)
(* The state is the module-level dictionaries the workflow reads and       *)
(* writes (PENDING_VERIFICATIONS, BLOCKED_USERS, BULK_APPROVAL_MODE,       *)
(* MANAGED_CHANNELS, VERIFIED_FOR_CHANNELS, USER_DATABASE; a dict keeps    *)
(* its keys in the order they were inserted), the per-user input-routing   *)
(* flag context.user_data['awaiting_code'], and the wall clock read by     *)
(* datetime.now().  Handlers are dispatched one at a time (the Application *)
(* is built without concurrent updates), so each handler is one action.    *)
(* The result of every platform call a handler awaits is an input of the   *)
(* action: TRUE when the call returns, FALSE when it raises.               *)
(* AwaitSpec and PairSpec follow the user handlers from await to await     *)
(* instead, each user's handler a coroutine of its own (running), to show  *)
(* what another handler would meet if it ran while one is suspended.       *)
(*                                                                         *)
(* Two history variables record what cannot be read off the dictionaries:  *)
(* "last" describes the handler that ran last (the branch it took and the  *)
(* platform calls it made) and "hist" counts code submissions.             *)
(***************************************************************************)
EXTENDS Integers, Sequences, FiniteSets, TLC

VARIABLES
    PENDING_VERIFICATIONS,   \* dict user_id -> verification record
    BLOCKED_USERS,           \* set of user ids
    BULK_APPROVAL_MODE,      \* dict channel_id -> bool
    MANAGED_CHANNELS,        \* dict channel_id -> channel title
    VERIFIED_FOR_CHANNELS,   \* dict user_id -> list of channel ids
    awaiting_code,           \* user_id -> context.user_data['awaiting_code']
    now,                     \* datetime.now(), in whole seconds
    last,                    \* history: the handler that ran last
    hist,                    \* history: per-user submission counters
    account,                 \* the profile given to the legitimacy functions
    verdict,                 \* what the legitimacy functions returned for it
    running,                 \* user_id -> the handler run for it, await by await
    UPLOADED_IMAGES,         \* list of images for every channel
    CHANNEL_SPECIFIC_IMAGES, \* dict channel_id -> list of images
    CURRENT_IMAGE_INDEX,     \* dict channel_id -> position of the next image
    AUTO_POST_ENABLED,       \* dict channel_id -> bool
    uploading,               \* the admin's user_data: uploading_mode, upload_channel_id
    USER_DATABASE,           \* dict user_id -> dict channel_id -> status
    pending_keys,            \* list(PENDING_VERIFICATIONS): its keys as inserted
    database_keys,           \* list(USER_DATABASE): its keys as inserted
    posting                  \* dict channel_id -> the auto_post_job waiting in send_photo

vars == << PENDING_VERIFICATIONS, BLOCKED_USERS, BULK_APPROVAL_MODE,
           MANAGED_CHANNELS, VERIFIED_FOR_CHANNELS, awaiting_code, now,
           last, hist, account, verdict, running, UPLOADED_IMAGES,
           CHANNEL_SPECIFIC_IMAGES, CURRENT_IMAGE_INDEX, AUTO_POST_ENABLED,
           uploading, USER_DATABASE, pending_keys, database_keys, posting >>

\* The variables of the legitimacy functions run on their own and of the
\* handlers followed await by await
judged == << account, verdict, running, UPLOADED_IMAGES,
            CHANNEL_SPECIFIC_IMAGES, CURRENT_IMAGE_INDEX, AUTO_POST_ENABLED,
            uploading, posting >>

\* The variables of auto-posting
feeds == << UPLOADED_IMAGES, CHANNEL_SPECIFIC_IMAGES, CURRENT_IMAGE_INDEX,
           AUTO_POST_ENABLED, uploading, posting >>

-----------------------------------------------------------------------------
(* Bounds of the model *)

MaxDays == 1
AttemptsCap == 4
MaxVerified == 1
MaxNameLen == 4
MaxImages == 2
MaxLines == 2

\* The requesting user of the runs that follow the workflow of one user, and
\* the chats of the model.
Users == {1}

\* The two users of the runs in which the updates of two users meet
\* (PairSpec) and of the commands that go through the records of all users
\* (ApproveAllSpec, BulkSpec, ImportSpec)
Pair == {1, 2}
Chats == {1, 2}

\* The chats the admin registers: chat 2 stays unregistered, so its name is
\* "Unknown" and it has no entry in BULK_APPROVAL_MODE.
Registrable == {1}

(* Program constants *)

ADMIN_ID == 0
CODE_EXPIRY_MINUTES == 5
MAX_ATTEMPTS == 3
SECONDS_PER_DAY == 86400

(* The instants the clock takes: the start, the end of the expiry window,   *)
(* one second later, and the same time of day on each following day.       *)
Instants ==
    {0, CODE_EXPIRY_MINUTES * 60, CODE_EXPIRY_MINUTES * 60 + 1}
        \cup { d * SECONDS_PER_DAY : d \in 1..MaxDays }


-----------------------------------------------------------------------------
(* Text.  A string is a sequence of one-character strings. *)

Whitespace == {" "}

Upper(c) ==
    CASE c = "a" -> "A"
      [] c = "b" -> "B"
      [] c = "c" -> "C"
      [] c = "d" -> "D"
      [] c = "x" -> "X"
      [] c = "y" -> "Y"
      [] c = "z" -> "Z"
      [] OTHER -> c

RECURSIVE LStrip(_)
LStrip(s) ==
    IF s # << >> /\ Head(s) \in Whitespace THEN LStrip(Tail(s)) ELSE s

RECURSIVE RStrip(_)
RStrip(s) ==
    IF s # << >> /\ s[Len(s)] \in Whitespace
    THEN RStrip(SubSeq(s, 1, Len(s) - 1))
    ELSE s

\* update.message.text.strip().upper()
SubmittedCode(text) ==
    LET t == RStrip(LStrip(text))
    IN  [i \in 1..Len(t) |-> Upper(t[i])]

\* The codes generate_verification_code draws in the model: two of the 36^6
\* six-character strings over A-Z, 0-9.
generate_verification_code ==
    { << "A", "B", "1", "2", "C", "D" >>, << "X", "Y", "9", "9", "Z", "Z" >> }

\* The texts users send while the bot waits for a code.
Texts ==
    { << " ", "a", "b", "1", "2", "c", "d", " " >>,
      << "X", "Y", "9", "9", "Z", "Z" >>,
      << "W", "R", "O", "N", "G", "1" >> }

-----------------------------------------------------------------------------
(* Legitimacy pre-check.  A name is a sequence of character classes:        *)
(* "L" an ASCII letter, "D" an ASCII digit, "U" a non-ASCII letter,         *)
(* "P" punctuation or emoji, "W" whitespace.                                *)

\* A character of a name is one of five classes: "L" an ASCII letter, "D" an
\* ASCII digit, "U" a letter outside ASCII, "P" punctuation or emoji, "W"
\* whitespace.  [a-zA-Z0-9] matches the classes L and D.
Alphabet == {"L", "D", "U", "P", "W"}

AsciiAlnum == {"L", "D"}

letters_and_numbers(name) == SelectSeq(name, LAMBDA ch : ch \in AsciiAlnum)

is_name_suspicious(name) ==
    IF name = << >> \/ Len(name) < 2
    THEN TRUE
    ELSE IF Len(letters_and_numbers(name)) < 2
         THEN TRUE
         ELSE FALSE

\* The profiles get_chat returns in the model; ok = FALSE when get_chat raises.
FirstNames ==
    { << >>, << "L", "L" >>, << "P", "P" >>, << "U", "U", "U" >> }

Profiles ==
    { [ok |-> FALSE, type |-> "private", first_name |-> << "L", "L" >>],
      [ok |-> TRUE, type |-> "bot", first_name |-> << "L", "L" >>] }
        \cup [ ok : {TRUE}, type : {"private"}, first_name : FirstNames ]

\* Variant of check_user_legitimacy: the account type is not looked at.
check_name_only(profile) ==
    IF ~profile.ok
    THEN FALSE
    ELSE IF profile.first_name = << >> \/ is_name_suspicious(profile.first_name)
         THEN FALSE
         ELSE TRUE

check_user_legitimacy(profile) ==
    IF ~profile.ok
    THEN FALSE
    ELSE IF profile.type = "bot"
         THEN FALSE
         ELSE IF profile.first_name = << >> \/ is_name_suspicious(profile.first_name)
              THEN FALSE
              ELSE TRUE

\* The names and accounts the legitimacy functions are run on
Names == UNION { [1..n -> Alphabet] : n \in 0..MaxNameLen }

Accounts ==
    { [ok |-> FALSE, type |-> "private", first_name |-> << >>] }
        \cup [ ok : {TRUE}, type : {"private", "bot"}, first_name : Names ]

NoAccount == [ok |-> FALSE, type |-> "private", first_name |-> << >>]
\* A verdict not yet returned is the empty sequence, a returned one << value >>
NoVerdict == [legitimate |-> << >>, suspicious |-> << >>]

-----------------------------------------------------------------------------
(* Dictionaries *)

DictDel(d, k) == [x \in (DOMAIN d) \ {k} |-> d[x]]

DictPut(d, k, v) == [x \in (DOMAIN d) \cup {k} |-> IF x = k THEN v ELSE d[x]]

\* The elements of a set of ids in ascending order
RECURSIVE InOrder(_)
InOrder(S) ==
    IF S = {} THEN << >>
    ELSE LET u == CHOOSE x \in S : \A y \in S : x <= y
         IN << u >> \o InOrder(S \ {u})

\* The keys of a dict after a handler, given the keys before it: a key that
\* stays keeps its place (also when its value is assigned again), a deleted
\* key leaves, a new key goes to the end.  No handler inserts two keys or
\* deletes a key and inserts it again.
KeysAfter(keys, d) ==
    SelectSeq(keys, LAMBDA k : k \in DOMAIN d)
        \o InOrder({ k \in DOMAIN d : \A i \in DOMAIN keys : keys[i] # k })

\* list(PENDING_VERIFICATIONS) and list(USER_DATABASE) after a handler
KeysKept ==
    /\ pending_keys' = KeysAfter(pending_keys, PENDING_VERIFICATIONS')
    /\ database_keys' = KeysAfter(database_keys, USER_DATABASE')

-----------------------------------------------------------------------------
(* User tracking.  USER_DATABASE[user_id] is the 'channels' dictionary of   *)
(* the user, a channel's entry its 'status'.                                *)

\* track_user_activity raises AttributeError: for a user who is not in the
\* database the new entry is built with user_data.get(...) (83), and
\* user_data is None unless the caller passes it
TrackRaises(db, user_id, has_user_data) ==
    user_id \notin DOMAIN db /\ ~has_user_data

\* The database after track_user_activity(user_id, channel_id, action) has
\* returned (80-100)
Tracked(db, user_id, channel_id, action) ==
    IF user_id \in DOMAIN db
    THEN [db EXCEPT ![user_id] = DictPut(@, channel_id, action)]
    ELSE DictPut(db, user_id, DictPut(<< >>, channel_id, action))

\* track_user_activity(user_id, channel_id, action) called without user_data
\* inside a try whose except clause swallows the AttributeError
TrackedIfKnown(db, user_id, channel_id, action) ==
    IF TrackRaises(db, user_id, FALSE)
    THEN db
    ELSE Tracked(db, user_id, channel_id, action)

\* Variant of BulkMode: the default of the lookup is True, so a chat without
\* an entry counts as a bulk-mode chat.
BulkModeDefaultOn(channel_id) ==
    IF channel_id \in DOMAIN BULK_APPROVAL_MODE
    THEN BULK_APPROVAL_MODE[channel_id]
    ELSE TRUE

\* Variant of BulkMode: the stored flag is not consulted, every chat counts as
\* a chat without bulk approval.
BulkModeUnread(channel_id) == FALSE

\* BULK_APPROVAL_MODE.get(channel_id, False)
BulkMode(channel_id) ==
    IF channel_id \in DOMAIN BULK_APPROVAL_MODE
    THEN BULK_APPROVAL_MODE[channel_id]
    ELSE FALSE

\* channel.title of a chat, as the platform reports it
ChannelTitle(channel_id) == << "title", channel_id >>

\* MANAGED_CHANNELS.get(channel_id, {}).get("name", "Unknown")
ChannelName(channel_id) ==
    IF channel_id \in DOMAIN MANAGED_CHANNELS
    THEN MANAGED_CHANNELS[channel_id]
    ELSE << "Unknown" >>

-----------------------------------------------------------------------------
(* Verification records and the expiry test *)

\* The dict literal stored by handle_join_request
NewVerification(channel_id, code) ==
    [ channel_id   |-> channel_id,
      channel_name |-> ChannelName(channel_id),
      code         |-> code,
      timestamp    |-> now,
      attempts     |-> 0,
      max_attempts |-> MAX_ATTEMPTS ]

\* timedelta.seconds of a non-negative difference of whole seconds: the
\* seconds component, the days are held in timedelta.days
TimedeltaSeconds(delta) == delta % SECONDS_PER_DAY

\* (datetime.now() - verification['timestamp']).seconds > CODE_EXPIRY_MINUTES * 60
CodeExpired(verification) ==
    TimedeltaSeconds(now - verification.timestamp) > CODE_EXPIRY_MINUTES * 60

\* Variant of CountAttempt: counting an attempt also restarts the expiry window.
CountAttemptRestamped(verification) ==
    [verification EXCEPT !.attempts = @ + 1, !.timestamp = now]

\* Variant of CountAttempt: "= 1" written for "+= 1".
CountAttemptAssigned(verification) ==
    [verification EXCEPT !.attempts = 1]

\* verification['attempts'] += 1
CountAttempt(verification) ==
    [verification EXCEPT !.attempts = @ + 1]

\* Variant of Reissue: the resend also starts the attempts over.
ReissueFresh(verification, new_code) ==
    [verification EXCEPT !.code = new_code, !.timestamp = now, !.attempts = 0]

\* verification['code'] = new_code; verification['timestamp'] = datetime.now()
Reissue(verification, new_code) ==
    [verification EXCEPT !.code = new_code, !.timestamp = now]

\* VERIFIED_FOR_CHANNELS after the "if user_id not in ...: = []" and the append
VerifiedAppend(user_id, channel_id) ==
    IF user_id \in DOMAIN VERIFIED_FOR_CHANNELS
    THEN [VERIFIED_FOR_CHANNELS EXCEPT ![user_id] = Append(@, channel_id)]
    ELSE DictPut(VERIFIED_FOR_CHANNELS, user_id, << channel_id >>)


-----------------------------------------------------------------------------
(* History *)

\* A platform call: ok = FALSE when it raised
Call(f, channel_id, user_id, ok) ==
    [f |-> f, chat |-> channel_id, user |-> user_id, ok |-> ok]

\* The get_chat call of check_user_legitimacy; what it returned is the
\* profile, an input of the handler
Lookup(user_id) == Call("get_chat", 0, user_id, TRUE)

NoText == << >>
NoChat == 0

\* A message that carries a code: the send_message of handle_join_request or
\* the edit_message_text of resend_code_callback, to the chat of user "to"
CodeMessage(to, code) == [to |-> to, code |-> code]

\* What a handler leaves in "last".  op: the handler; user: who triggered it
\* (for admin commands: the argument); chat: the chat a join request targets;
\* text: the text submitted as a code; outcome: the branch taken; replies: the
\* reply_text and edit_message_text calls made to the user, in order, each
\* named by what it says; calls: the get_chat, approve and decline calls
\* made, in order; sent: the messages sent that carry a code; report: the
\* counters a command reports when it ends (NoReport for the others).
NoReport == << >>

Event(op, user, chat, text, outcome, replies, calls, sent) ==
    [ op |-> op, user |-> user, chat |-> chat, text |-> text,
      outcome |-> outcome, replies |-> replies, calls |-> calls,
      sent |-> sent, report |-> NoReport, invoker |-> << >> ]

\* The event of a command handler, with update.effective_user.id
Command(invoker, op, user, chat, text, outcome, replies, calls, sent) ==
    [Event(op, user, chat, text, outcome, replies, calls, sent)
        EXCEPT !.invoker = << invoker >>]

\* The "Approved: n / Failed: m" of approve_all_pending
Report(approved, failed) == [approved |-> approved, failed |-> failed]

Reported(event, approved, failed) ==
    [event EXCEPT !.report = Report(approved, failed)]

\* hist[u].subs: the submissions counted against u's record since it was
\* created; hist[u].wrong: those of them that were incorrect.
NoHist == [subs |-> 0, wrong |-> 0]

\* The counters after a submission that reached "attempts += 1"
Counted(h, incorrect, removed) ==
    [ subs  |-> IF removed THEN 0 ELSE h.subs + 1,
      wrong |-> IF removed THEN 0
                ELSE IF incorrect THEN h.wrong + 1 ELSE h.wrong ]


-----------------------------------------------------------------------------
(* Init: the module-level initialisers, lines 22-28 *)

\* No handler execution is in progress.  A handler execution is followed by
\* its position (pc: the platform call it awaits, or "done"), its local
\* variables, and three marks: touched, it has read or written one of the
\* shared maps; gap, it has awaited a platform call since; split, it has read
\* or written a shared map after such an await.
Idle ==
    [ op |-> "idle", pc |-> "done", user |-> 0, chat |-> NoChat, text |-> NoText,
      touched |-> FALSE, gap |-> FALSE, split |-> FALSE ]

\* uploading_mode is not set in context.user_data
NotUploading == [mode |-> "none", channel_id |-> NoChat]

\* The module-level initialisers of lines 29-35
NothingUploaded ==
    /\ UPLOADED_IMAGES = << >>
    /\ CHANNEL_SPECIFIC_IMAGES = << >>
    /\ CURRENT_IMAGE_INDEX = << >>
    /\ AUTO_POST_ENABLED = << >>
    /\ uploading = NotUploading
    /\ USER_DATABASE = << >>
    /\ pending_keys = << >>
    /\ database_keys = << >>
    /\ posting = << >>

Globals ==
    /\ PENDING_VERIFICATIONS = << >>
    /\ BLOCKED_USERS = {}
    /\ BULK_APPROVAL_MODE = << >>
    /\ MANAGED_CHANNELS = << >>
    /\ VERIFIED_FOR_CHANNELS = << >>
    /\ awaiting_code = [u \in Users |-> FALSE]
    /\ now = 0
    /\ last = Event("init", 0, NoChat, NoText, "NONE", << >>, << >>, << >>)
    /\ hist = [u \in Users |-> NoHist]

Init ==
    /\ Globals
    /\ account = NoAccount
    /\ verdict = NoVerdict
    /\ running = [u \in Pair |-> Idle]
    /\ NothingUploaded

-----------------------------------------------------------------------------
(* handle_join_request.  Every path makes at most one approve, decline or   *)
(* send_message call, each inside try/except; call_ok is its result.        *)

\* The database after the track_user_activity(user_id, channel_id,
\* 'pending', {...}) the handler starts with (471): called with user_data,
\* it adds a user the bot has not seen
Requested(user_id, channel_id) ==
    Tracked(USER_DATABASE, user_id, channel_id, "pending")

\* Variant of IssueCode: a code message that cannot be delivered makes the
\* handler decline the join request.
IssueCodeOrDecline(user_id, channel_id, verification_code, call_ok) ==
    /\ PENDING_VERIFICATIONS' =
           DictPut(PENDING_VERIFICATIONS, user_id,
                   NewVerification(channel_id, verification_code))
    /\ last' = Event("join", user_id, channel_id, NoText,
                     IF call_ok THEN "ISSUED" ELSE "ISSUED_UNDELIVERED",
                     << >>,
                     IF call_ok
                     THEN << Lookup(user_id) >>
                     ELSE << Lookup(user_id),
                             Call("decline", channel_id, user_id, TRUE) >>,
                     << CodeMessage(user_id, verification_code) >>)
    /\ hist' = [hist EXCEPT ![user_id] = NoHist]
    /\ USER_DATABASE' = Requested(user_id, channel_id)
    /\ UNCHANGED << BLOCKED_USERS, BULK_APPROVAL_MODE, MANAGED_CHANNELS,
                    VERIFIED_FOR_CHANNELS, awaiting_code, now >>

\* Code issuance, the tail of handle_join_request: the record is stored, then
\* the code is sent to the user.  send_message is inside try/except: when it
\* raises (call_ok = FALSE) the failure is swallowed.
IssueCode(user_id, channel_id, verification_code, call_ok) ==
    /\ PENDING_VERIFICATIONS' =
           DictPut(PENDING_VERIFICATIONS, user_id,
                   NewVerification(channel_id, verification_code))
    /\ last' = Event("join", user_id, channel_id, NoText,
                     IF call_ok THEN "ISSUED" ELSE "ISSUED_UNDELIVERED",
                     << >>,
                     << Lookup(user_id) >>,
                     << CodeMessage(user_id, verification_code) >>)
    /\ hist' = [hist EXCEPT ![user_id] = NoHist]
    /\ USER_DATABASE' = Requested(user_id, channel_id)
    /\ UNCHANGED << BLOCKED_USERS, BULK_APPROVAL_MODE, MANAGED_CHANNELS,
                    VERIFIED_FOR_CHANNELS, awaiting_code, now >>

\* Variant of BulkApprove: a bulk approval that returned is also recorded in
\* the verified chats of the user.
BulkApproveRecorded(user_id, channel_id, call_ok) ==
    /\ last' = Event("join", user_id, channel_id, NoText, "BULK", << >>,
                     << Call("approve", channel_id, user_id, call_ok) >>, << >>)
    /\ USER_DATABASE' =
           IF call_ok
           THEN Tracked(Requested(user_id, channel_id), user_id, channel_id,
                        "approved")
           ELSE Requested(user_id, channel_id)
    /\ VERIFIED_FOR_CHANNELS' =
           IF call_ok THEN VerifiedAppend(user_id, channel_id)
                      ELSE VERIFIED_FOR_CHANNELS
    /\ UNCHANGED << PENDING_VERIFICATIONS, BLOCKED_USERS, BULK_APPROVAL_MODE,
                    MANAGED_CHANNELS, awaiting_code, now, hist >>

\* The bulk fast path of handle_join_request: approve_chat_join_request, then
\* track_user_activity 'approved' (480), or return when the call raised
BulkApprove(user_id, channel_id, call_ok) ==
    /\ last' = Event("join", user_id, channel_id, NoText, "BULK", << >>,
                     << Call("approve", channel_id, user_id, call_ok) >>, << >>)
    /\ USER_DATABASE' =
           IF call_ok
           THEN Tracked(Requested(user_id, channel_id), user_id, channel_id,
                        "approved")
           ELSE Requested(user_id, channel_id)
    /\ UNCHANGED << PENDING_VERIFICATIONS, BLOCKED_USERS, BULK_APPROVAL_MODE,
                    MANAGED_CHANNELS, VERIFIED_FOR_CHANNELS, awaiting_code,
                    now, hist >>

handle_join_request(user_id, channel_id, profile, verification_code, call_ok) ==
    /\ IF BulkMode(channel_id)
       THEN BulkApprove(user_id, channel_id, call_ok)
       ELSE IF user_id \in BLOCKED_USERS
       THEN /\ last' = Event("join", user_id, channel_id, NoText, "BLOCKED_USER", << >>,
                             << Call("decline", channel_id, user_id, call_ok) >>, << >>)
            /\ USER_DATABASE' =
                   IF call_ok
                   THEN Tracked(Requested(user_id, channel_id), user_id,
                                channel_id, "rejected")
                   ELSE Requested(user_id, channel_id)
            /\ UNCHANGED << PENDING_VERIFICATIONS, BLOCKED_USERS, BULK_APPROVAL_MODE,
                            MANAGED_CHANNELS, VERIFIED_FOR_CHANNELS, awaiting_code,
                            now, hist >>
       ELSE IF ~check_user_legitimacy(profile)
       THEN /\ last' = Event("join", user_id, channel_id, NoText, "REJECTED", << >>,
                             << Lookup(user_id),
                                Call("decline", channel_id, user_id, call_ok) >>, << >>)
            /\ USER_DATABASE' =
                   IF call_ok
                   THEN Tracked(Requested(user_id, channel_id), user_id,
                                channel_id, "rejected")
                   ELSE Requested(user_id, channel_id)
            /\ UNCHANGED << PENDING_VERIFICATIONS, BLOCKED_USERS, BULK_APPROVAL_MODE,
                            MANAGED_CHANNELS, VERIFIED_FOR_CHANNELS, awaiting_code,
                            now, hist >>
       ELSE IssueCode(user_id, channel_id, verification_code, call_ok)
    /\ KeysKept

-----------------------------------------------------------------------------
(* enter_code_callback and resend_code_callback *)

\* answer_ok: query.answer() returned; edit_ok: query.edit_message_text returned
enter_code_callback(user_id, answer_ok, edit_ok) ==
    /\ IF ~answer_ok
       THEN /\ last' = Event("enter", user_id, NoChat, NoText, "FAILED",
                             << >>, << >>, << >>)
            /\ UNCHANGED << PENDING_VERIFICATIONS, BLOCKED_USERS, BULK_APPROVAL_MODE,
                            MANAGED_CHANNELS, VERIFIED_FOR_CHANNELS, awaiting_code,
                            now, hist >>
       ELSE IF user_id \notin DOMAIN PENDING_VERIFICATIONS
       THEN /\ last' = Event("enter", user_id, NoChat, NoText, "NO_RECORD", << "NO_PENDING" >>, << >>, << >>)
            /\ UNCHANGED << PENDING_VERIFICATIONS, BLOCKED_USERS, BULK_APPROVAL_MODE,
                            MANAGED_CHANNELS, VERIFIED_FOR_CHANNELS, awaiting_code,
                            now, hist >>
       ELSE IF ~edit_ok
       THEN \* awaiting_code is set after the edit: not at all when the edit raises
            /\ last' = Event("enter", user_id, NoChat, NoText, "FAILED",
                             << "ENTER_CODE" >>, << >>, << >>)
            /\ UNCHANGED << PENDING_VERIFICATIONS, BLOCKED_USERS, BULK_APPROVAL_MODE,
                            MANAGED_CHANNELS, VERIFIED_FOR_CHANNELS, awaiting_code,
                            now, hist >>
       ELSE /\ awaiting_code' = [awaiting_code EXCEPT ![user_id] = TRUE]
            /\ last' = Event("enter", user_id, NoChat, NoText, "AWAITING", << "ENTER_CODE" >>, << >>, << >>)
            /\ UNCHANGED << PENDING_VERIFICATIONS, BLOCKED_USERS, BULK_APPROVAL_MODE,
                            MANAGED_CHANNELS, VERIFIED_FOR_CHANNELS, now, hist >>
    /\ UNCHANGED USER_DATABASE
    /\ KeysKept

\* answer_ok: query.answer("Resending...") returned.  The record is updated
\* before the edit_message_text that shows the new code is awaited, so the
\* result of that edit changes nothing here.
resend_code_callback(user_id, new_code, answer_ok) ==
    /\ IF ~answer_ok
       THEN /\ last' = Event("resend", user_id, NoChat, NoText, "FAILED", << >>, << >>, << >>)
            /\ UNCHANGED << PENDING_VERIFICATIONS, BLOCKED_USERS, BULK_APPROVAL_MODE,
                            MANAGED_CHANNELS, VERIFIED_FOR_CHANNELS, awaiting_code,
                            now, hist >>
       ELSE IF user_id \notin DOMAIN PENDING_VERIFICATIONS
       THEN /\ last' = Event("resend", user_id, NoChat, NoText, "NO_RECORD", << "NO_PENDING" >>, << >>, << >>)
            /\ UNCHANGED << PENDING_VERIFICATIONS, BLOCKED_USERS, BULK_APPROVAL_MODE,
                            MANAGED_CHANNELS, VERIFIED_FOR_CHANNELS, awaiting_code,
                            now, hist >>
       ELSE /\ PENDING_VERIFICATIONS' =
                   [PENDING_VERIFICATIONS EXCEPT ![user_id] = Reissue(@, new_code)]
            /\ last' = Event("resend", user_id, NoChat, NoText, "RESENT",
                             << >>, << >>, << CodeMessage(user_id, new_code) >>)
            /\ UNCHANGED << BLOCKED_USERS, BULK_APPROVAL_MODE, MANAGED_CHANNELS,
                            VERIFIED_FOR_CHANNELS, awaiting_code, now, hist >>
    /\ UNCHANGED USER_DATABASE
    /\ KeysKept

-----------------------------------------------------------------------------
(* handle_verification_code, reached from handle_content *)

\* approve_ok, decline_ok: the approve and decline calls returned; reply_ok:
\* the first update.message.reply_text of the branch returned.  The reply of
\* the except clause is the handler's last statement: its result changes
\* nothing.  track_user_activity follows every approve or decline call that
\* returned, inside the same try.
handle_verification_code(user_id, text, approve_ok, reply_ok, decline_ok) ==
    /\ LET submitted_code == SubmittedCode(text)
           h == hist[user_id]
       IN
       IF ~awaiting_code[user_id]
       THEN /\ last' = Event("code", user_id, NoChat, NoText, "NOT_AWAITING", << >>, << >>, << >>)
            /\ UNCHANGED << PENDING_VERIFICATIONS, BLOCKED_USERS, BULK_APPROVAL_MODE,
                            MANAGED_CHANNELS, VERIFIED_FOR_CHANNELS, awaiting_code,
                            now, hist, USER_DATABASE >>
       ELSE IF user_id \notin DOMAIN PENDING_VERIFICATIONS
       THEN \* the flag is cleared after the reply: not at all when the reply raises
            /\ awaiting_code' =
                   IF reply_ok THEN [awaiting_code EXCEPT ![user_id] = FALSE]
                               ELSE awaiting_code
            /\ last' = Event("code", user_id, NoChat, text, "NO_RECORD", << "NO_PENDING" >>, << >>, << >>)
            /\ UNCHANGED << PENDING_VERIFICATIONS, BLOCKED_USERS, BULK_APPROVAL_MODE,
                            MANAGED_CHANNELS, VERIFIED_FOR_CHANNELS, now, hist,
                            USER_DATABASE >>
       ELSE
       LET verification == PENDING_VERIFICATIONS[user_id]
           counted == CountAttempt(verification)
           remaining == counted.max_attempts - counted.attempts
           \* track_user_activity(user_id, verification['channel_id'], ...)
           \* returned (578, 589, 611)
           tracked == ~TrackRaises(USER_DATABASE, user_id, FALSE)
           \* the database after a decline call: 'rejected' when the call was
           \* reached and returned
           declined ==
               IF reply_ok /\ decline_ok
               THEN TrackedIfKnown(USER_DATABASE, user_id, verification.channel_id,
                                   "rejected")
               ELSE USER_DATABASE
       IN
       IF CodeExpired(verification)
       THEN \* del, flag cleared, reply; the decline follows only if the reply returned
            /\ PENDING_VERIFICATIONS' = DictDel(PENDING_VERIFICATIONS, user_id)
            /\ awaiting_code' = [awaiting_code EXCEPT ![user_id] = FALSE]
            /\ last' = Event("code", user_id, NoChat, text, "EXPIRED", << "EXPIRED" >>,
                             IF reply_ok
                             THEN << Call("decline", verification.channel_id, user_id, decline_ok) >>
                             ELSE << >>,
                             << >>)
            /\ hist' = [hist EXCEPT ![user_id] = NoHist]
            /\ USER_DATABASE' = declined
            /\ UNCHANGED << BLOCKED_USERS, BULK_APPROVAL_MODE, MANAGED_CHANNELS,
                            VERIFIED_FOR_CHANNELS, now >>
       ELSE IF submitted_code = counted.code
       THEN /\ awaiting_code' = [awaiting_code EXCEPT ![user_id] = FALSE]
            /\ USER_DATABASE' =
                   IF approve_ok
                   THEN TrackedIfKnown(USER_DATABASE, user_id,
                                       verification.channel_id, "approved")
                   ELSE USER_DATABASE
            /\ IF approve_ok /\ tracked /\ reply_ok
               THEN \* approve, track, reply, append to the verified chats, del
                    /\ VERIFIED_FOR_CHANNELS' =
                           VerifiedAppend(user_id, verification.channel_id)
                    /\ PENDING_VERIFICATIONS' = DictDel(PENDING_VERIFICATIONS, user_id)
                    /\ last' = Event("code", user_id, NoChat, text, "APPROVED", << "VERIFIED" >>,
                                     << Call("approve", verification.channel_id, user_id, approve_ok) >>,
                                     << >>)
                    /\ hist' = [hist EXCEPT ![user_id] = Counted(h, FALSE, TRUE)]
               ELSE \* the approve call, track_user_activity or the success reply
                    \* raised: the except clause replies with the error, the
                    \* record stays
                    /\ PENDING_VERIFICATIONS' =
                           [PENDING_VERIFICATIONS EXCEPT ![user_id] = counted]
                    /\ last' = Event("code", user_id, NoChat, text,
                                     IF ~approve_ok THEN "APPROVE_FAILED"
                                     ELSE IF ~tracked THEN "TRACK_FAILED"
                                     ELSE "APPROVED_REPLY_FAILED",
                                     IF approve_ok /\ tracked
                                     THEN << "VERIFIED", "ERROR" >>
                                     ELSE << "ERROR" >>,
                                     << Call("approve", verification.channel_id, user_id, approve_ok) >>,
                                     << >>)
                    /\ hist' = [hist EXCEPT ![user_id] = Counted(h, FALSE, FALSE)]
                    /\ UNCHANGED VERIFIED_FOR_CHANNELS
            /\ UNCHANGED << BLOCKED_USERS, BULK_APPROVAL_MODE, MANAGED_CHANNELS, now >>
       ELSE IF remaining > 0
       THEN /\ PENDING_VERIFICATIONS' =
                   [PENDING_VERIFICATIONS EXCEPT ![user_id] = counted]
            /\ last' = Event("code", user_id, NoChat, text, "INCORRECT", << "INCORRECT" >>, << >>, << >>)
            /\ hist' = [hist EXCEPT ![user_id] = Counted(h, TRUE, FALSE)]
            /\ UNCHANGED << BLOCKED_USERS, BULK_APPROVAL_MODE, MANAGED_CHANNELS,
                            VERIFIED_FOR_CHANNELS, awaiting_code, now,
                            USER_DATABASE >>
       ELSE \* del, flag cleared, blocked, reply; the decline follows only if the
            \* reply returned
            /\ PENDING_VERIFICATIONS' = DictDel(PENDING_VERIFICATIONS, user_id)
            /\ awaiting_code' = [awaiting_code EXCEPT ![user_id] = FALSE]
            /\ BLOCKED_USERS' = BLOCKED_USERS \cup {user_id}
            /\ last' = Event("code", user_id, NoChat, text, "BLOCKED", << "BLOCKED" >>,
                             IF reply_ok
                             THEN << Call("decline", verification.channel_id, user_id, decline_ok) >>
                             ELSE << >>,
                             << >>)
            /\ hist' = [hist EXCEPT ![user_id] = Counted(h, TRUE, TRUE)]
            /\ USER_DATABASE' = declined
            /\ UNCHANGED << BULK_APPROVAL_MODE, MANAGED_CHANNELS,
                            VERIFIED_FOR_CHANNELS, now >>
    /\ KeysKept

\* A text message: routed to the verification handler while awaiting_code is
\* set.  The upload and posting modes that follow write only the image lists
\* and PENDING_POSTS, none of which is state of this model.
handle_content(user_id, text, approve_ok, reply_ok, decline_ok) ==
    /\ IF awaiting_code[user_id]
       THEN handle_verification_code(user_id, text, approve_ok, reply_ok, decline_ok)
       ELSE /\ last' = Event("content", user_id, NoChat, NoText, "DROPPED", << >>, << >>, << >>)
            /\ UNCHANGED << PENDING_VERIFICATIONS, BLOCKED_USERS, BULK_APPROVAL_MODE,
                            MANAGED_CHANNELS, VERIFIED_FOR_CHANNELS, awaiting_code,
                            now, hist, USER_DATABASE >>
    /\ KeysKept

-----------------------------------------------------------------------------
(* Admin commands and channel registration *)

NoArg == -1
BadArg == -2

\* Variant of block_user: the record of the blocked user is not deleted.
block_user_keep_record(invoker, arg) ==
    /\ IF invoker # ADMIN_ID \/ arg = NoArg
       THEN /\ last' = Command(invoker, "block", 0, NoChat, NoText, "IGNORED", << >>, << >>, << >>)
            /\ UNCHANGED << PENDING_VERIFICATIONS, BLOCKED_USERS, BULK_APPROVAL_MODE,
                            MANAGED_CHANNELS, VERIFIED_FOR_CHANNELS, awaiting_code,
                            now, hist >>
       ELSE /\ BLOCKED_USERS' = BLOCKED_USERS \cup {arg}
            /\ last' = Command(invoker, "block", arg, NoChat, NoText, "BLOCKED", << "BLOCKED" >>, << >>, << >>)
            /\ UNCHANGED << PENDING_VERIFICATIONS, BULK_APPROVAL_MODE,
                            MANAGED_CHANNELS, VERIFIED_FOR_CHANNELS, awaiting_code,
                            now, hist >>
    /\ UNCHANGED USER_DATABASE
    /\ KeysKept

\* /block_user: arg is context.args[0], NoArg when no argument was given
block_user(invoker, arg) ==
    /\ IF invoker # ADMIN_ID \/ arg = NoArg
       THEN /\ last' = Command(invoker, "block", 0, NoChat, NoText, "IGNORED", << >>, << >>, << >>)
            /\ UNCHANGED << PENDING_VERIFICATIONS, BLOCKED_USERS, BULK_APPROVAL_MODE,
                            MANAGED_CHANNELS, VERIFIED_FOR_CHANNELS, awaiting_code,
                            now, hist >>
       ELSE /\ BLOCKED_USERS' = BLOCKED_USERS \cup {arg}
            /\ PENDING_VERIFICATIONS' =
                   IF arg \in DOMAIN PENDING_VERIFICATIONS
                   THEN DictDel(PENDING_VERIFICATIONS, arg)
                   ELSE PENDING_VERIFICATIONS
            /\ last' = Command(invoker, "block", arg, NoChat, NoText, "BLOCKED", << "BLOCKED" >>, << >>, << >>)
            /\ hist' = [hist EXCEPT ![arg] = NoHist]
            /\ UNCHANGED << BULK_APPROVAL_MODE, MANAGED_CHANNELS,
                            VERIFIED_FOR_CHANNELS, awaiting_code, now >>
    /\ UNCHANGED USER_DATABASE
    /\ KeysKept

\* /approve_user USER_ID CHANNEL_ID.  arg is context.args[0], NoArg when fewer
\* than two arguments were given, BadArg when int() raises on one of them.
\* The record of the user is deleted after a successful approve call whatever
\* chat it was issued for; a failure of the final reply_text lands in the
\* except clause, after the deletion.  track_user_activity (764) is called
\* without user_data: it raises for a user who is not in USER_DATABASE, and
\* the handler ends in the except clause.
manual_approve_user(invoker, arg, channel_id, approve_ok, reply_ok) ==
    /\ IF invoker # ADMIN_ID
       THEN /\ last' = Command(invoker, "approve_user", 0, NoChat, NoText, "IGNORED",
                             << >>, << >>, << >>)
            /\ UNCHANGED << PENDING_VERIFICATIONS, BLOCKED_USERS, BULK_APPROVAL_MODE,
                            MANAGED_CHANNELS, VERIFIED_FOR_CHANNELS, awaiting_code,
                            now, hist, USER_DATABASE >>
       ELSE IF arg = NoArg \/ arg = BadArg
       THEN /\ last' = Command(invoker, "approve_user", 0, NoChat, NoText, "IGNORED",
                             IF arg = NoArg THEN << "USAGE" >> ELSE << "ERROR" >>,
                             << >>, << >>)
            /\ UNCHANGED << PENDING_VERIFICATIONS, BLOCKED_USERS, BULK_APPROVAL_MODE,
                            MANAGED_CHANNELS, VERIFIED_FOR_CHANNELS, awaiting_code,
                            now, hist, USER_DATABASE >>
       ELSE IF ~approve_ok
       THEN /\ last' = Command(invoker, "approve_user", arg, channel_id, NoText,
                             "APPROVE_FAILED", << "ERROR" >>,
                             << Call("approve", channel_id, arg, FALSE) >>, << >>)
            /\ UNCHANGED << PENDING_VERIFICATIONS, BLOCKED_USERS, BULK_APPROVAL_MODE,
                            MANAGED_CHANNELS, VERIFIED_FOR_CHANNELS, awaiting_code,
                            now, hist, USER_DATABASE >>
       ELSE IF TrackRaises(USER_DATABASE, arg, FALSE)
       THEN /\ last' = Command(invoker, "approve_user", arg, channel_id, NoText,
                             "TRACK_FAILED", << "ERROR" >>,
                             << Call("approve", channel_id, arg, TRUE) >>, << >>)
            /\ UNCHANGED << PENDING_VERIFICATIONS, BLOCKED_USERS, BULK_APPROVAL_MODE,
                            MANAGED_CHANNELS, VERIFIED_FOR_CHANNELS, awaiting_code,
                            now, hist, USER_DATABASE >>
       ELSE /\ PENDING_VERIFICATIONS' =
                   IF arg \in DOMAIN PENDING_VERIFICATIONS
                   THEN DictDel(PENDING_VERIFICATIONS, arg)
                   ELSE PENDING_VERIFICATIONS
            /\ last' = Command(invoker, "approve_user", arg, channel_id, NoText,
                             IF reply_ok THEN "APPROVED" ELSE "APPROVED_REPLY_FAILED",
                             IF reply_ok THEN << "APPROVED" >>
                                         ELSE << "APPROVED", "ERROR" >>,
                             << Call("approve", channel_id, arg, TRUE) >>, << >>)
            /\ hist' = [hist EXCEPT ![arg] = NoHist]
            /\ USER_DATABASE' = Tracked(USER_DATABASE, arg, channel_id, "approved")
            /\ UNCHANGED << BLOCKED_USERS, BULK_APPROVAL_MODE, MANAGED_CHANNELS,
                            VERIFIED_FOR_CHANNELS, awaiting_code, now >>
    /\ KeysKept

\* Variant of Unapproved: the loop never deletes a record.
UnapprovedAndApproved(pending_copy, ok) == pending_copy

\* PENDING_VERIFICATIONS after the loop of approve_all_pending: the record of
\* every user whose approve call returned has been deleted
Unapproved(pending_copy, ok) ==
    [u \in { x \in DOMAIN pending_copy : ~ok[x] } |-> pending_copy[u]]

\* /approve_all_pending.  start_ok: the first reply_text returned; ok[u]: the
\* approve call for u returned.  The loop visits the records in the order of
\* pending_copy.items(), the order the keys were inserted.  A record whose
\* approve call and track_user_activity (784) returned is appended to the
\* verified chats and deleted, the others count as failed; the notification
\* is inside its own try/except; the final edit_text is the last statement,
\* and its failure changes nothing in the state.
approve_all_pending(invoker, start_ok, ok) ==
    /\ IF invoker # ADMIN_ID
       THEN /\ last' = Command(invoker, "approve_all", 0, NoChat, NoText, "IGNORED",
                             << >>, << >>, << >>)
            /\ UNCHANGED << PENDING_VERIFICATIONS, BLOCKED_USERS, BULK_APPROVAL_MODE,
                            MANAGED_CHANNELS, VERIFIED_FOR_CHANNELS, awaiting_code,
                            now, hist, USER_DATABASE >>
       ELSE IF PENDING_VERIFICATIONS = << >>
       THEN /\ last' = Command(invoker, "approve_all", 0, NoChat, NoText, "NONE_PENDING",
                             << "NO_PENDING" >>, << >>, << >>)
            /\ UNCHANGED << PENDING_VERIFICATIONS, BLOCKED_USERS, BULK_APPROVAL_MODE,
                            MANAGED_CHANNELS, VERIFIED_FOR_CHANNELS, awaiting_code,
                            now, hist, USER_DATABASE >>
       ELSE IF ~start_ok
       THEN /\ last' = Command(invoker, "approve_all", 0, NoChat, NoText, "FAILED",
                             << "APPROVING" >>, << >>, << >>)
            /\ UNCHANGED << PENDING_VERIFICATIONS, BLOCKED_USERS, BULK_APPROVAL_MODE,
                            MANAGED_CHANNELS, VERIFIED_FOR_CHANNELS, awaiting_code,
                            now, hist, USER_DATABASE >>
       ELSE LET pending_copy == PENDING_VERIFICATIONS
                order        == KeysAfter(pending_keys, pending_copy)
                passed       == [u \in DOMAIN pending_copy |->
                                    ok[u] /\ ~TrackRaises(USER_DATABASE, u, FALSE)]
                done         == { u \in DOMAIN pending_copy : passed[u] }
            IN /\ PENDING_VERIFICATIONS' = Unapproved(pending_copy, passed)
               /\ USER_DATABASE' =
                      [u \in DOMAIN USER_DATABASE |->
                          IF u \in done
                          THEN DictPut(USER_DATABASE[u], pending_copy[u].channel_id,
                                       "approved")
                          ELSE USER_DATABASE[u]]
               /\ VERIFIED_FOR_CHANNELS' =
                      [u \in (DOMAIN VERIFIED_FOR_CHANNELS) \cup done |->
                          IF u \in done
                          THEN VerifiedAppend(u, pending_copy[u].channel_id)[u]
                          ELSE VERIFIED_FOR_CHANNELS[u]]
               /\ last' = Reported(
                              Command(invoker, "approve_all", 0, NoChat, NoText, "DONE",
                                    << "APPROVING", "DONE" >>,
                                    [i \in 1..Len(order) |->
                                        Call("approve",
                                             pending_copy[order[i]].channel_id,
                                             order[i], ok[order[i]])],
                                    << >>),
                              Len(SelectSeq(order, LAMBDA u : passed[u])),
                              Len(SelectSeq(order, LAMBDA u : ~passed[u])))
               /\ hist' = [u \in DOMAIN hist |->
                              IF u \in done THEN NoHist ELSE hist[u]]
               /\ UNCHANGED << BLOCKED_USERS, BULK_APPROVAL_MODE, MANAGED_CHANNELS,
                               awaiting_code, now >>
    /\ KeysKept

\* /unblock_user
unblock_user(invoker, arg) ==
    /\ IF invoker # ADMIN_ID \/ arg = NoArg
       THEN /\ last' = Command(invoker, "unblock", 0, NoChat, NoText, "IGNORED", << >>, << >>, << >>)
            /\ UNCHANGED << PENDING_VERIFICATIONS, BLOCKED_USERS, BULK_APPROVAL_MODE,
                            MANAGED_CHANNELS, VERIFIED_FOR_CHANNELS, awaiting_code,
                            now, hist >>
       ELSE /\ BLOCKED_USERS' = BLOCKED_USERS \ {arg}
            /\ last' = Command(invoker, "unblock", arg, NoChat, NoText,
                             IF arg \in BLOCKED_USERS THEN "UNBLOCKED" ELSE "NOT_BLOCKED",
                             IF arg \in BLOCKED_USERS THEN << "UNBLOCKED" >>
                                                      ELSE << "NOT_BLOCKED" >>,
                             << >>, << >>)
            /\ UNCHANGED << PENDING_VERIFICATIONS, BULK_APPROVAL_MODE, MANAGED_CHANNELS,
                            VERIFIED_FOR_CHANNELS, awaiting_code, now, hist >>
    /\ UNCHANGED USER_DATABASE
    /\ KeysKept

\* Variant of toggle_bulk_approval: the test "effective_user.id != ADMIN_ID"
\* (884) is missing.
toggle_bulk_by_anyone(invoker, arg) ==
    /\ IF arg = NoArg \/ arg \notin DOMAIN MANAGED_CHANNELS
       THEN /\ last' = Command(invoker, "toggle_bulk", 0, NoChat, NoText, "IGNORED",
                             IF arg = NoArg THEN << "BULK_STATUS" >>
                             ELSE << "NOT_FOUND" >>,
                             << >>, << >>)
            /\ UNCHANGED << PENDING_VERIFICATIONS, BLOCKED_USERS, BULK_APPROVAL_MODE,
                            MANAGED_CHANNELS, VERIFIED_FOR_CHANNELS, awaiting_code,
                            now, hist >>
       ELSE /\ BULK_APPROVAL_MODE' =
                   DictPut(BULK_APPROVAL_MODE, arg, ~BulkMode(arg))
            /\ last' = Command(invoker, "toggle_bulk", arg, NoChat, NoText, "TOGGLED", << "BULK_MODE" >>, << >>, << >>)
            /\ UNCHANGED << PENDING_VERIFICATIONS, BLOCKED_USERS, MANAGED_CHANNELS,
                            VERIFIED_FOR_CHANNELS, awaiting_code, now, hist >>
    /\ UNCHANGED USER_DATABASE
    /\ KeysKept

\* /toggle_bulk: arg is the channel id given, NoArg when none was given
toggle_bulk_approval(invoker, arg) ==
    /\ IF invoker # ADMIN_ID \/ arg = NoArg \/ arg \notin DOMAIN MANAGED_CHANNELS
       THEN /\ last' = Command(invoker, "toggle_bulk", 0, NoChat, NoText, "IGNORED",
                             IF invoker # ADMIN_ID THEN << >>
                             ELSE IF arg = NoArg THEN << "BULK_STATUS" >>
                             ELSE << "NOT_FOUND" >>,
                             << >>, << >>)
            /\ UNCHANGED << PENDING_VERIFICATIONS, BLOCKED_USERS, BULK_APPROVAL_MODE,
                            MANAGED_CHANNELS, VERIFIED_FOR_CHANNELS, awaiting_code,
                            now, hist >>
       ELSE /\ BULK_APPROVAL_MODE' =
                   DictPut(BULK_APPROVAL_MODE, arg, ~BulkMode(arg))
            /\ last' = Command(invoker, "toggle_bulk", arg, NoChat, NoText, "TOGGLED", << "BULK_MODE" >>, << >>, << >>)
            /\ UNCHANGED << PENDING_VERIFICATIONS, BLOCKED_USERS, MANAGED_CHANNELS,
                            VERIFIED_FOR_CHANNELS, awaiting_code, now, hist >>
    /\ UNCHANGED USER_DATABASE
    /\ KeysKept

\* The admin forwards a message of a channel: bot_is_admin is the answer of
\* is_bot_admin.  Registration also switches the channel's bulk mode off.
handle_forwarded_message(channel_id, bot_is_admin) ==
    /\ IF ~bot_is_admin
       THEN /\ last' = Event("register", channel_id, NoChat, NoText, "NOT_ADMIN", << "NOT_ADMIN" >>, << >>, << >>)
            /\ UNCHANGED << PENDING_VERIFICATIONS, BLOCKED_USERS, BULK_APPROVAL_MODE,
                            MANAGED_CHANNELS, VERIFIED_FOR_CHANNELS, awaiting_code,
                            now, hist >>
       ELSE /\ MANAGED_CHANNELS' =
                   DictPut(MANAGED_CHANNELS, channel_id, ChannelTitle(channel_id))
            /\ BULK_APPROVAL_MODE' = DictPut(BULK_APPROVAL_MODE, channel_id, FALSE)
            /\ last' = Event("register", channel_id, NoChat, NoText, "REGISTERED", << "REGISTERED" >>, << >>, << >>)
            /\ UNCHANGED << PENDING_VERIFICATIONS, BLOCKED_USERS,
                            VERIFIED_FOR_CHANNELS, awaiting_code, now, hist >>
    /\ UNCHANGED USER_DATABASE
    /\ KeysKept

-----------------------------------------------------------------------------
(* The clock *)

Tick(t) ==
    /\ t > now
    /\ now' = t
    /\ last' = Event("tick", 0, NoChat, NoText, "NONE", << >>, << >>, << >>)
    /\ UNCHANGED << PENDING_VERIFICATIONS, BLOCKED_USERS, BULK_APPROVAL_MODE,
                    MANAGED_CHANNELS, VERIFIED_FOR_CHANNELS, awaiting_code, hist,
                    USER_DATABASE >>
    /\ KeysKept

-----------------------------------------------------------------------------
(* Specification *)

VerifiedCount(user_id) ==
    IF user_id \in DOMAIN VERIFIED_FOR_CHANNELS
    THEN Len(VERIFIED_FOR_CHANNELS[user_id])
    ELSE 0

\* The model stops a user's submissions once a record has AttemptsCap attempts
BelowAttemptsCap(user_id) ==
    user_id \in DOMAIN PENDING_VERIFICATIONS
        => PENDING_VERIFICATIONS[user_id].attempts < AttemptsCap

JoinRequest ==
    /\ UNCHANGED judged
    /\ \E user_id \in Users, channel_id \in Chats, profile \in Profiles,
          verification_code \in generate_verification_code, call_ok \in BOOLEAN :
           /\ VerifiedCount(user_id) < MaxVerified
           /\ handle_join_request(user_id, channel_id, profile, verification_code,
                                  call_ok)

EnterCode ==
    /\ UNCHANGED judged
    /\ \E user_id \in Users, answer_ok, edit_ok \in BOOLEAN :
           enter_code_callback(user_id, answer_ok, edit_ok)

Resend ==
    /\ UNCHANGED judged
    /\ \E user_id \in Users, new_code \in generate_verification_code,
          answer_ok \in BOOLEAN :
           resend_code_callback(user_id, new_code, answer_ok)

Content ==
    /\ UNCHANGED judged
    /\ \E user_id \in Users, text \in Texts,
          approve_ok, reply_ok, decline_ok \in BOOLEAN :
           /\ BelowAttemptsCap(user_id)
           /\ handle_content(user_id, text, approve_ok, reply_ok, decline_ok)

\* The admin commands are sent by the admin with an argument of the expected
\* kind; the other senders and the missing or malformed arguments are the
\* inputs of CommandSpec below.  The chat and the call results are enumerated
\* only where the handler gets to read them: the reply after an approve call
\* that returned.
AdminBlock ==
    /\ UNCHANGED judged
    /\ \E arg \in Users : block_user(ADMIN_ID, arg)

AdminApproveUser ==
    /\ UNCHANGED judged
    /\ \E arg \in Users, channel_id \in Chats, approve_ok \in BOOLEAN :
           \E reply_ok \in IF approve_ok THEN BOOLEAN ELSE {TRUE} :
               manual_approve_user(ADMIN_ID, arg, channel_id, approve_ok, reply_ok)

AdminApproveAll ==
    /\ UNCHANGED judged
    /\ \E start_ok \in BOOLEAN, ok \in [Users -> BOOLEAN] :
           approve_all_pending(ADMIN_ID, start_ok, ok)

AdminUnblock ==
    /\ UNCHANGED judged
    /\ \E arg \in Users : unblock_user(ADMIN_ID, arg)

AdminToggleBulk ==
    /\ UNCHANGED judged
    /\ \E arg \in Chats : toggle_bulk_approval(ADMIN_ID, arg)

Register ==
    /\ UNCHANGED judged
    /\ \E channel_id \in Registrable, bot_is_admin \in BOOLEAN :
           handle_forwarded_message(channel_id, bot_is_admin)

\* The workflow over both chats, at one instant: no handler of it is ever
\* late, the passing of time is in ExpirySpec below.
Next ==
    \/ JoinRequest
    \/ EnterCode
    \/ Resend
    \/ Content
    \/ AdminBlock
    \/ AdminApproveUser
    \/ AdminApproveAll
    \/ AdminUnblock
    \/ AdminToggleBulk
    \/ Register

Spec == Init /\ [][Next]_vars

-----------------------------------------------------------------------------
(* The workflow with the clock: the same handlers, the join requests, the   *)
(* manual approvals and the bulk switch for the first chat, and time that   *)
(* passes between the handlers.                                             *)

FirstChat == {1}

JoinFirstChat ==
    /\ UNCHANGED judged
    /\ \E user_id \in Users, channel_id \in FirstChat, profile \in Profiles,
          verification_code \in generate_verification_code, call_ok \in BOOLEAN :
           /\ VerifiedCount(user_id) < MaxVerified
           /\ handle_join_request(user_id, channel_id, profile, verification_code,
                                  call_ok)

ApproveFirstChat ==
    /\ UNCHANGED judged
    /\ \E arg \in Users, channel_id \in FirstChat, approve_ok \in BOOLEAN :
           \E reply_ok \in IF approve_ok THEN BOOLEAN ELSE {TRUE} :
               manual_approve_user(ADMIN_ID, arg, channel_id, approve_ok, reply_ok)

ToggleFirstChat ==
    /\ UNCHANGED judged
    /\ \E arg \in FirstChat : toggle_bulk_approval(ADMIN_ID, arg)

Clock ==
    /\ UNCHANGED judged
    /\ \E t \in Instants : Tick(t)

ExpiryNext ==
    \/ JoinFirstChat
    \/ EnterCode
    \/ Resend
    \/ Content
    \/ AdminBlock
    \/ ApproveFirstChat
    \/ AdminApproveAll
    \/ AdminUnblock
    \/ ToggleFirstChat
    \/ Register
    \/ Clock

ExpirySpec == Init /\ [][ExpiryNext]_vars

-----------------------------------------------------------------------------
(* The admin commands from every sender: the admin and the users, with a    *)
(* user id or a chat id, with no argument, and (approve_user) with an       *)
(* argument that is not a number.  The admin registers chat 1, so that      *)
(* /toggle_bulk has a channel it finds.                                     *)

Block ==
    /\ UNCHANGED judged
    /\ \E invoker \in {ADMIN_ID} \cup Users, arg \in {NoArg} \cup Users :
           block_user(invoker, arg)

ApproveUser ==
    /\ UNCHANGED judged
    /\ \E invoker \in {ADMIN_ID} \cup Users, arg \in {NoArg, BadArg} \cup Users :
           IF invoker = ADMIN_ID /\ arg \in Users
           THEN \E channel_id \in Chats, approve_ok \in BOOLEAN :
                   \E reply_ok \in IF approve_ok THEN BOOLEAN ELSE {TRUE} :
                       manual_approve_user(invoker, arg, channel_id, approve_ok,
                                           reply_ok)
           ELSE manual_approve_user(invoker, arg, NoChat, TRUE, TRUE)

ApproveAll ==
    /\ UNCHANGED judged
    /\ \E invoker \in {ADMIN_ID} \cup Users, start_ok \in BOOLEAN,
          ok \in [Users -> BOOLEAN] :
           approve_all_pending(invoker, start_ok, ok)

Unblock ==
    /\ UNCHANGED judged
    /\ \E invoker \in {ADMIN_ID} \cup Users, arg \in {NoArg} \cup Users :
           unblock_user(invoker, arg)

ToggleBulk ==
    /\ UNCHANGED judged
    /\ \E invoker \in {ADMIN_ID} \cup Users, arg \in {NoArg} \cup Chats :
           toggle_bulk_approval(invoker, arg)

CommandNext ==
    \/ JoinRequest
    \/ Register
    \/ Block
    \/ ApproveUser
    \/ ApproveAll
    \/ Unblock
    \/ ToggleBulk

CommandSpec == Init /\ [][CommandNext]_vars

-----------------------------------------------------------------------------
(* The legitimacy functions run on their own: one account is drawn, then    *)
(* check_user_legitimacy and is_name_suspicious are applied to it.          *)

LegitimacyInit ==
    /\ Globals
    /\ account \in Accounts
    /\ verdict = NoVerdict
    /\ running = [u \in Pair |-> Idle]
    /\ NothingUploaded

\* legitimacy_check = await check_user_legitimacy(context, user_id)
JudgeAccount ==
    /\ verdict.legitimate = << >>
    /\ verdict' = [verdict EXCEPT
                      !.legitimate = << check_user_legitimacy(account) >>]
    /\ UNCHANGED << PENDING_VERIFICATIONS, BLOCKED_USERS, BULK_APPROVAL_MODE,
                    MANAGED_CHANNELS, VERIFIED_FOR_CHANNELS, awaiting_code,
                    now, last, hist, account, running, feeds, USER_DATABASE,
                    pending_keys, database_keys >>

\* is_name_suspicious(user.first_name)
JudgeName ==
    /\ verdict.suspicious = << >>
    /\ verdict' = [verdict EXCEPT
                      !.suspicious = << is_name_suspicious(account.first_name) >>]
    /\ UNCHANGED << PENDING_VERIFICATIONS, BLOCKED_USERS, BULK_APPROVAL_MODE,
                    MANAGED_CHANNELS, VERIFIED_FOR_CHANNELS, awaiting_code,
                    now, last, hist, account, running, feeds, USER_DATABASE,
                    pending_keys, database_keys >>

LegitimacyNext ==
    \/ JudgeAccount
    \/ JudgeName

LegitimacySpec == LegitimacyInit /\ [][LegitimacyNext]_vars

-----------------------------------------------------------------------------
(* Two users.  The handlers are the same operators, run for the user of    *)
(* the update.                                                              *)

\* The profiles of the two-user runs: a legitimate account and a bot
PairProfiles ==
    { [ok |-> TRUE, type |-> "private", first_name |-> << "L", "L" >>],
      [ok |-> TRUE, type |-> "bot", first_name |-> << "L", "L" >>] }

PairInit ==
    /\ PENDING_VERIFICATIONS = << >>
    /\ BLOCKED_USERS = {}
    /\ BULK_APPROVAL_MODE = << >>
    /\ MANAGED_CHANNELS = << >>
    /\ VERIFIED_FOR_CHANNELS = << >>
    /\ awaiting_code = [u \in Pair |-> FALSE]
    /\ now = 0
    /\ last = Event("init", 0, NoChat, NoText, "NONE", << >>, << >>, << >>)
    /\ hist = [u \in Pair |-> NoHist]
    /\ account = NoAccount
    /\ verdict = NoVerdict
    /\ running = [u \in Pair |-> Idle]
    /\ NothingUploaded

\* Each user asks for a chat of its own and is sent a code of its own, so
\* that a handler reading the other user's record would show
ChatOf(user_id) == user_id

CodeOf(user_id) ==
    IF user_id = 1 THEN << "A", "B", "1", "2", "C", "D" >>
                   ELSE << "X", "Y", "9", "9", "Z", "Z" >>

-----------------------------------------------------------------------------
(* Auto-posting: image uploads, the autopost switches and the hourly job.   *)
(* An image is its file_id; the lists matter by their length.  The job is   *)
(* run by the scheduler in the event loop of the update handlers, not as an *)
(* update: it is two steps, up to its await of send_photo and from there,   *)
(* and the update handlers can run between the two.                         *)

\* What the auto-posting handlers leave alone
workflow == << PENDING_VERIFICATIONS, BLOCKED_USERS, BULK_APPROVAL_MODE,
              VERIFIED_FOR_CHANNELS, awaiting_code, now, hist, account,
              verdict, running, USER_DATABASE, pending_keys, database_keys >>

Photo == "photo"

\* /upload_images: the mode is set after the reply, not at all when it raises
upload_images_command(invoker, reply_ok) ==
    /\ last' = Command(invoker, "upload_images", 0, NoChat, NoText,
                       IF invoker # ADMIN_ID THEN "IGNORED"
                       ELSE IF reply_ok THEN "GENERAL" ELSE "FAILED",
                       << >>, << >>, << >>)
    /\ uploading' = IF invoker = ADMIN_ID /\ reply_ok
                    THEN [uploading EXCEPT !.mode = "general"]
                    ELSE uploading
    /\ UNCHANGED << workflow, MANAGED_CHANNELS, UPLOADED_IMAGES,
                    CHANNEL_SPECIFIC_IMAGES, CURRENT_IMAGE_INDEX,
                    AUTO_POST_ENABLED, posting >>

\* /upload_for_channel CHANNEL_ID: arg is NoArg when no argument was given
upload_for_channel_command(invoker, arg) ==
    /\ last' = Command(invoker, "upload_for_channel", 0,
                       IF arg = NoArg THEN NoChat ELSE arg, NoText,
                       IF invoker # ADMIN_ID THEN "IGNORED"
                       ELSE IF arg = NoArg THEN "USAGE"
                       ELSE IF arg \notin DOMAIN MANAGED_CHANNELS THEN "INVALID"
                       ELSE "CHANNEL",
                       << >>, << >>, << >>)
    /\ uploading' = IF /\ invoker = ADMIN_ID
                       /\ arg # NoArg
                       /\ arg \in DOMAIN MANAGED_CHANNELS
                    THEN [mode |-> "channel_specific", channel_id |-> arg]
                    ELSE uploading
    /\ UNCHANGED << workflow, MANAGED_CHANNELS, UPLOADED_IMAGES,
                    CHANNEL_SPECIFIC_IMAGES, CURRENT_IMAGE_INDEX,
                    AUTO_POST_ENABLED, posting >>

\* handle_image_upload, reached from handle_content (953-954) when the
\* sender's uploading_mode is set: only the admin's ever is
handle_image_upload(invoker, has_photo) ==
    LET taken == invoker = ADMIN_ID /\ has_photo /\ uploading.mode # "none"
        channel_id == uploading.channel_id
    IN  /\ last' = Command(invoker, "upload", 0, NoChat, NoText,
                           IF taken THEN "ADDED" ELSE "IGNORED",
                           << >>, << >>, << >>)
        /\ UPLOADED_IMAGES' =
              IF taken /\ uploading.mode = "general"
              THEN Append(UPLOADED_IMAGES, Photo)
              ELSE UPLOADED_IMAGES
        /\ CHANNEL_SPECIFIC_IMAGES' =
              IF taken /\ uploading.mode = "channel_specific" /\ channel_id # NoChat
              THEN IF channel_id \in DOMAIN CHANNEL_SPECIFIC_IMAGES
                   THEN [CHANNEL_SPECIFIC_IMAGES EXCEPT
                            ![channel_id] = Append(@, Photo)]
                   ELSE DictPut(CHANNEL_SPECIFIC_IMAGES, channel_id, << Photo >>)
              ELSE CHANNEL_SPECIFIC_IMAGES
        /\ UNCHANGED << workflow, MANAGED_CHANNELS, CURRENT_IMAGE_INDEX,
                        AUTO_POST_ENABLED, uploading, posting >>

\* The local variables of an auto_post_job that waits in send_photo (384):
\* idx, and images, which is a reference to a list object.  list says which
\* object: "channel" is CHANNEL_SPECIFIC_IMAGES[channel_id] (created once at
\* 661 and only appended to), "general" is the list the global
\* UPLOADED_IMAGES is bound to, and "cleared" is a list the global was bound
\* to until clear_images bound it to a new one; held is what that list holds.
Waiting(idx, list, held) == [idx |-> idx, list |-> list, held |-> held]

\* /clear_images: UPLOADED_IMAGES = [] binds the global to a new list (678);
\* a job that waits with the old list keeps it as it is
clear_images(invoker) ==
    /\ last' = Command(invoker, "clear_images", 0, NoChat, NoText,
                       IF invoker # ADMIN_ID THEN "IGNORED" ELSE "CLEARED",
                       << >>, << >>, << >>)
    /\ UPLOADED_IMAGES' = IF invoker = ADMIN_ID THEN << >> ELSE UPLOADED_IMAGES
    /\ posting' =
          IF invoker = ADMIN_ID
          THEN [c \in DOMAIN posting |->
                   IF posting[c].list = "general"
                   THEN Waiting(posting[c].idx, "cleared", UPLOADED_IMAGES)
                   ELSE posting[c]]
          ELSE posting
    /\ UNCHANGED << workflow, MANAGED_CHANNELS, CHANNEL_SPECIFIC_IMAGES,
                    CURRENT_IMAGE_INDEX, AUTO_POST_ENABLED, uploading >>

\* UPLOADED_IMAGES or (channel_id in CHANNEL_SPECIFIC_IMAGES and
\* CHANNEL_SPECIFIC_IMAGES[channel_id])
has_images(channel_id) ==
    \/ UPLOADED_IMAGES # << >>
    \/ /\ channel_id \in DOMAIN CHANNEL_SPECIFIC_IMAGES
       /\ CHANNEL_SPECIFIC_IMAGES[channel_id] # << >>

\* /enable_autopost CHANNEL_ID: sets the flag and schedules the hourly job
enable_autopost(invoker, arg) ==
    LET enabled == /\ invoker = ADMIN_ID
                   /\ arg # NoArg
                   /\ arg \in DOMAIN MANAGED_CHANNELS
                   /\ has_images(arg)
    IN  /\ last' = Command(invoker, "enable_autopost", 0,
                           IF arg = NoArg THEN NoChat ELSE arg, NoText,
                           IF invoker # ADMIN_ID THEN "IGNORED"
                           ELSE IF arg = NoArg THEN "USAGE"
                           ELSE IF arg \notin DOMAIN MANAGED_CHANNELS THEN "NOT_FOUND"
                           ELSE IF ~has_images(arg) THEN "NO_IMAGES"
                           ELSE "ENABLED",
                           << >>, << >>, << >>)
        /\ AUTO_POST_ENABLED' =
              IF enabled THEN DictPut(AUTO_POST_ENABLED, arg, TRUE)
                         ELSE AUTO_POST_ENABLED
        /\ UNCHANGED << workflow, MANAGED_CHANNELS, UPLOADED_IMAGES,
                        CHANNEL_SPECIFIC_IMAGES, CURRENT_IMAGE_INDEX, uploading,
                        posting >>

\* /disable_autopost CHANNEL_ID: clears the flag for whatever id is given
disable_autopost(invoker, arg) ==
    LET disabled == invoker = ADMIN_ID /\ arg # NoArg
    IN  /\ last' = Command(invoker, "disable_autopost", 0,
                           IF arg = NoArg THEN NoChat ELSE arg, NoText,
                           IF disabled THEN "DISABLED" ELSE "IGNORED",
                           << >>, << >>, << >>)
        /\ AUTO_POST_ENABLED' =
              IF disabled THEN DictPut(AUTO_POST_ENABLED, arg, FALSE)
                          ELSE AUTO_POST_ENABLED
        /\ UNCHANGED << workflow, MANAGED_CHANNELS, UPLOADED_IMAGES,
                        CHANNEL_SPECIFIC_IMAGES, CURRENT_IMAGE_INDEX, uploading,
                        posting >>

\* AUTO_POST_ENABLED.get(channel_id)
AutoPostOn(channel_id) ==
    channel_id \in DOMAIN AUTO_POST_ENABLED /\ AUTO_POST_ENABLED[channel_id]

\* The list auto_post_job takes its image from (370-375): the list of the
\* channel when it is not empty, the general list otherwise
ImagesFor(channel_id) ==
    IF /\ channel_id \in DOMAIN CHANNEL_SPECIFIC_IMAGES
       /\ CHANNEL_SPECIFIC_IMAGES[channel_id] # << >>
    THEN CHANNEL_SPECIFIC_IMAGES[channel_id]
    ELSE UPLOADED_IMAGES

\* idx of line 380, after the default of lines 377-378
IndexFor(channel_id) ==
    IF channel_id \in DOMAIN CURRENT_IMAGE_INDEX
    THEN CURRENT_IMAGE_INDEX[channel_id]
    ELSE 0

\* (idx + 1) % len(images)
NextIndex(idx, images) == (idx + 1) % Len(images)

\* The list object auto_post_job binds images to (370-373)
ListFor(channel_id) ==
    IF /\ channel_id \in DOMAIN CHANNEL_SPECIFIC_IMAGES
       /\ CHANNEL_SPECIFIC_IMAGES[channel_id] # << >>
    THEN "channel"
    ELSE "general"

\* What the list of a waiting job holds now: a list that is still the
\* channel's or the general one has every image appended to it since
ImagesOf(channel_id) ==
    CASE posting[channel_id].list = "channel" -> CHANNEL_SPECIFIC_IMAGES[channel_id]
      [] posting[channel_id].list = "general" -> UPLOADED_IMAGES
      [] OTHER -> posting[channel_id].held

\* auto_post_job(context, channel_id) up to its await of send_photo
\* (366-384).  The scheduler runs one instance of a job at a time.  The
\* default index is stored at 378 before the image is taken; images[idx] at
\* 381 is outside the try: with idx >= len(images) it raises IndexError and
\* the job ends there.
auto_post_job_begin(channel_id) ==
    LET images == ImagesFor(channel_id)
        idx == IndexFor(channel_id)
        picks == AutoPostOn(channel_id) /\ images # << >>
        outcome == IF ~AutoPostOn(channel_id) THEN "OFF"
                   ELSE IF images = << >> THEN "NO_IMAGES"
                   ELSE IF idx >= Len(images) THEN "INDEX_ERROR"
                   ELSE "SENDING"
    IN  /\ channel_id \notin DOMAIN posting
        /\ last' = Event("auto_post", 0, channel_id, NoText, outcome, << >>,
                         << >>, << >>)
        /\ CURRENT_IMAGE_INDEX' =
              IF picks THEN DictPut(CURRENT_IMAGE_INDEX, channel_id, idx)
                       ELSE CURRENT_IMAGE_INDEX
        /\ posting' =
              IF outcome = "SENDING"
              THEN DictPut(posting, channel_id,
                           Waiting(idx, ListFor(channel_id), << >>))
              ELSE posting
        /\ UNCHANGED << workflow, MANAGED_CHANNELS, UPLOADED_IMAGES,
                        CHANNEL_SPECIFIC_IMAGES, AUTO_POST_ENABLED, uploading >>

\* auto_post_job from the return of send_photo (384-392).  send_ok:
\* send_photo returned.  The index stored at 390 is computed from the idx
\* read before the await and the length the job's list has now.
auto_post_job_resume(channel_id, send_ok) ==
    /\ channel_id \in DOMAIN posting
    /\ last' = Event("auto_post", 0, channel_id, NoText,
                     IF send_ok THEN "POSTED" ELSE "POST_FAILED", << >>,
                     << Call("send_photo", channel_id, 0, send_ok) >>, << >>)
    /\ CURRENT_IMAGE_INDEX' =
          IF send_ok
          THEN DictPut(CURRENT_IMAGE_INDEX, channel_id,
                       NextIndex(posting[channel_id].idx, ImagesOf(channel_id)))
          ELSE CURRENT_IMAGE_INDEX
    /\ posting' = DictDel(posting, channel_id)
    /\ UNCHANGED << workflow, MANAGED_CHANNELS, UPLOADED_IMAGES,
                    CHANNEL_SPECIFIC_IMAGES, AUTO_POST_ENABLED, uploading >>

\* No list grows beyond MaxImages
RoomFor ==
    \/ uploading.mode = "general" /\ Len(UPLOADED_IMAGES) < MaxImages
    \/ /\ uploading.mode = "channel_specific"
       /\ uploading.channel_id \in DOMAIN CHANNEL_SPECIFIC_IMAGES
            => Len(CHANNEL_SPECIFIC_IMAGES[uploading.channel_id]) < MaxImages
    \/ uploading.mode = "none"

UploadImages ==
    \E invoker \in {ADMIN_ID} \cup Users, reply_ok \in BOOLEAN :
        upload_images_command(invoker, reply_ok)

UploadForChannel ==
    \E invoker \in {ADMIN_ID} \cup Users, arg \in {NoArg} \cup Chats :
        upload_for_channel_command(invoker, arg)

ImageUpload ==
    /\ RoomFor
    /\ \E invoker \in {ADMIN_ID} \cup Users, has_photo \in BOOLEAN :
          handle_image_upload(invoker, has_photo)

ClearImages == \E invoker \in {ADMIN_ID} \cup Users : clear_images(invoker)

EnableAutopost ==
    \E invoker \in {ADMIN_ID} \cup Users, arg \in {NoArg} \cup Chats :
        enable_autopost(invoker, arg)

DisableAutopost ==
    \E invoker \in {ADMIN_ID} \cup Users, arg \in {NoArg} \cup Chats :
        disable_autopost(invoker, arg)

\* The scheduler runs the job of a channel enable_autopost has scheduled;
\* the job stays when remove_job raises in disable_autopost (717-720)
AutoPostJobBegin ==
    \E channel_id \in DOMAIN AUTO_POST_ENABLED : auto_post_job_begin(channel_id)

\* send_photo returns or raises in the job that waits for it; the update
\* handlers run in the same event loop, so any of them can have run between
\* the two steps of the job
AutoPostJobResume ==
    \E channel_id \in DOMAIN posting, send_ok \in BOOLEAN :
        auto_post_job_resume(channel_id, send_ok)

AutoPostInit == Init

AutoPostNext ==
    \/ Register
    \/ UploadImages
    \/ UploadForChannel
    \/ ImageUpload
    \/ ClearImages
    \/ EnableAutopost
    \/ DisableAutopost
    \/ AutoPostJobBegin
    \/ AutoPostJobResume

AutoPostSpec == AutoPostInit /\ [][AutoPostNext]_vars

-----------------------------------------------------------------------------
(* The bulk-approve file and the import of tracked users *)

\* What the two commands leave alone
untracked == << PENDING_VERIFICATIONS, BULK_APPROVAL_MODE, VERIFIED_FOR_CHANNELS,
               awaiting_code, now, hist, account, verdict, running,
               UPLOADED_IMAGES, CHANNEL_SPECIFIC_IMAGES, CURRENT_IMAGE_INDEX,
               AUTO_POST_ENABLED, uploading, posting >>

\* A line of the uploaded file is a sequence of characters
Digits == {"1", "2", "3"}

\* line.isdigit(), for the characters of the model
IsDigit(line) == line # << >> /\ \A i \in DOMAIN line : line[i] \in Digits

\* int(line) for a line of one digit
IntOf(line) ==
    CASE line = << "1" >> -> 1
      [] line = << "2" >> -> 2
      [] line = << "3" >> -> 3

\* user_ids of lines 824-828: the stripped lines that are not empty and all
\* digits, as integers, in the order of the file
RECURSIVE ValidIds(_)
ValidIds(lines) ==
    IF lines = << >> THEN << >>
    ELSE LET line == RStrip(LStrip(Head(lines)))
         IN  IF IsDigit(line)
             THEN << IntOf(line) >> \o ValidIds(Tail(lines))
             ELSE ValidIds(Tail(lines))

\* The loop of lines 835-842 over user_ids from position i: ok[i] tells
\* whether the i-th approve call returned.  The result is the database, the
\* two counters and the calls made.
RECURSIVE BulkLoop(_, _, _, _, _)
BulkLoop(user_ids, channel_id, ok, i, acc) ==
    IF i > Len(user_ids) THEN acc
    ELSE LET user_id == user_ids[i]
             call == Call("approve", channel_id, user_id, ok[i])
             counted == ok[i] /\ ~TrackRaises(acc.db, user_id, FALSE)
         IN  BulkLoop(user_ids, channel_id, ok, i + 1,
                      [ db |-> IF counted
                               THEN Tracked(acc.db, user_id, channel_id, "approved")
                               ELSE acc.db,
                        approved |-> acc.approved + (IF counted THEN 1 ELSE 0),
                        failed |-> acc.failed + (IF counted THEN 0 ELSE 1),
                        calls |-> Append(acc.calls, call) ])

\* handle_bulk_file: a document with caption "/bulk_approve CHANNEL_ID"; arg
\* is the channel id, NoArg when the caption has no second word; lines is
\* the file.  The platform's get_file, download and replies return.
handle_bulk_file(invoker, arg, lines, ok) ==
    /\ LET user_ids == ValidIds(lines)
           done == BulkLoop(user_ids, arg, ok, 1,
                            [db |-> USER_DATABASE, approved |-> 0, failed |-> 0,
                             calls |-> << >>])
       IN  IF invoker # ADMIN_ID
           THEN /\ last' = Command(invoker, "bulk_file", 0, NoChat, NoText, "IGNORED",
                                   << >>, << >>, << >>)
                /\ UNCHANGED << untracked, BLOCKED_USERS, MANAGED_CHANNELS,
                                USER_DATABASE >>
           ELSE IF arg = NoArg \/ arg \notin DOMAIN MANAGED_CHANNELS \/ user_ids = << >>
           THEN /\ last' = Command(invoker, "bulk_file", 0,
                                   IF arg = NoArg THEN NoChat ELSE arg, NoText,
                                   IF arg = NoArg THEN "FORMAT"
                                   ELSE IF arg \notin DOMAIN MANAGED_CHANNELS
                                   THEN "NOT_FOUND" ELSE "NO_VALID_IDS",
                                   << >>, << >>, << >>)
                /\ UNCHANGED << untracked, BLOCKED_USERS, MANAGED_CHANNELS,
                                USER_DATABASE >>
           ELSE /\ USER_DATABASE' = done.db
                /\ last' = Reported(Command(invoker, "bulk_file", 0, arg, NoText,
                                            "DONE", << "PROCESSING", "COMPLETE" >>,
                                            done.calls, << >>),
                                    done.approved, done.failed)
                /\ UNCHANGED << untracked, BLOCKED_USERS, MANAGED_CHANNELS >>
    /\ KeysKept

\* The status 'approved' in some channel of the user:
\* any(ch['status'] == 'approved' for ch in user_data['channels'].values())
HasApproved(channels) == \E c \in DOMAIN channels : channels[c] = "approved"

\* The users of users_to_import (273-292); the list holds them in the order
\* of USER_DATABASE.items().  "if source_channel_id:" is the truth
\* value of the number: None (NoArg in the model) and 0 both count as no
\* source channel.
UsersToImport(target_channel_id, source_channel_id) ==
    { user_id \in DOMAIN USER_DATABASE :
         /\ user_id \notin BLOCKED_USERS
         /\ target_channel_id \notin DOMAIN USER_DATABASE[user_id]
         /\ IF source_channel_id # NoArg /\ source_channel_id # 0
            THEN /\ source_channel_id \in DOMAIN USER_DATABASE[user_id]
                 /\ USER_DATABASE[user_id][source_channel_id] = "approved"
            ELSE HasApproved(USER_DATABASE[user_id]) }

\* The loop of lines 304-349 over users_to_import from position i: member[u]
\* tells whether get_chat_member reports u as a member, sent[u] whether the
\* send_message of the invite returned
RECURSIVE ImportLoop(_, _, _, _, _, _)
ImportLoop(users, target_channel_id, member, sent, i, acc) ==
    IF i > Len(users) THEN acc
    ELSE LET user_id == users[i]
         IN  ImportLoop(users, target_channel_id, member, sent, i + 1,
               IF member[user_id]
               THEN acc
               ELSE [ db |-> IF sent[user_id]
                             THEN Tracked(acc.db, user_id, target_channel_id,
                                          "invited")
                             ELSE acc.db,
                      approved |-> acc.approved + (IF sent[user_id] THEN 1 ELSE 0),
                      failed |-> acc.failed + (IF sent[user_id] THEN 0 ELSE 1),
                      calls |-> Append(acc.calls,
                                       Call("invite", target_channel_id, user_id,
                                            sent[user_id])) ])

\* /import_users TARGET [SOURCE].  target is NoArg without arguments, source
\* is NoArg without a second argument.  allowed: is_bot_admin and
\* export_chat_invite_link both went through.
import_users_to_channel(invoker, target, source, allowed, member, sent) ==
    /\ LET users == SelectSeq(KeysAfter(database_keys, USER_DATABASE),
                              LAMBDA u : u \in UsersToImport(target, source))
           done == ImportLoop(users, target, member, sent, 1,
                              [db |-> USER_DATABASE, approved |-> 0, failed |-> 0,
                               calls |-> << >>])
           given == IF source = NoArg THEN << >> ELSE << source >>
       IN  IF invoker # ADMIN_ID
           THEN /\ last' = Command(invoker, "import_users", 0, NoChat, NoText,
                                   "IGNORED", << >>, << >>, << >>)
                /\ UNCHANGED << untracked, BLOCKED_USERS, MANAGED_CHANNELS,
                                USER_DATABASE >>
           ELSE IF \/ target = NoArg
                   \/ target \notin DOMAIN MANAGED_CHANNELS
                   \/ ~allowed
                   \/ users = << >>
           THEN /\ last' = Command(invoker, "import_users", 0,
                                   IF target = NoArg THEN NoChat ELSE target, given,
                                   IF target = NoArg THEN "USAGE"
                                   ELSE IF target \notin DOMAIN MANAGED_CHANNELS
                                   THEN "NOT_FOUND"
                                   ELSE IF ~allowed THEN "NOT_ALLOWED"
                                   ELSE "NO_USERS",
                                   << >>, << >>, << >>)
                /\ UNCHANGED << untracked, BLOCKED_USERS, MANAGED_CHANNELS,
                                USER_DATABASE >>
           ELSE /\ USER_DATABASE' = done.db
                /\ last' = Reported(Command(invoker, "import_users", 0, target, given,
                                            "DONE", << "IMPORTING", "COMPLETE" >>,
                                            done.calls, << >>),
                                    done.approved, done.failed)
                /\ UNCHANGED << untracked, BLOCKED_USERS, MANAGED_CHANNELS >>
    /\ KeysKept

\* The lines of the uploaded files: the id of user 1, who sends join
\* requests, the id of user 3, whom the bot never sees, between blanks, and
\* a word
Lines == { << "1" >>, << " ", "3", " " >>, << "x" >> }

Files == UNION { [1..n -> Lines] : n \in 0..MaxLines }

TrackInit == PairInit

\* A join request of a user with a legitimate profile; the platform calls
\* return
TrackJoin ==
    /\ UNCHANGED judged
    /\ \E user_id \in Pair, channel_id \in Chats :
          /\ VerifiedCount(user_id) < MaxVerified
          /\ handle_join_request(user_id, channel_id,
                                 [ok |-> TRUE, type |-> "private",
                                  first_name |-> << "L", "L" >>],
                                 CodeOf(user_id), TRUE)

\* The admin approves a user for a chat with /approve_user
TrackSettled ==
    /\ UNCHANGED judged
    /\ \E user_id \in Pair, channel_id \in Chats :
          manual_approve_user(ADMIN_ID, user_id, channel_id, TRUE, TRUE)

\* The file and the call results are enumerated where the handler gets to
\* read them
BulkFile ==
    \E invoker \in {ADMIN_ID} \cup Users, arg \in {NoArg} \cup Chats :
        IF invoker = ADMIN_ID /\ arg \in DOMAIN MANAGED_CHANNELS
        THEN \E lines \in Files, ok \in [1..MaxLines -> BOOLEAN] :
                handle_bulk_file(invoker, arg, lines, ok)
        ELSE handle_bulk_file(invoker, arg, << >>, [i \in 1..MaxLines |-> TRUE])

BulkNext ==
    \/ Register
    \/ TrackJoin
    \/ TrackSettled
    \/ BulkFile

BulkSpec == TrackInit /\ [][BulkNext]_vars

TrackBlock ==
    /\ UNCHANGED judged
    /\ block_user(ADMIN_ID, 1)

ImportUsers ==
    \E invoker \in {ADMIN_ID} \cup Users, target \in {NoArg} \cup Chats :
        IF invoker = ADMIN_ID /\ target \in DOMAIN MANAGED_CHANNELS
        THEN \E source \in {NoArg, 0} \cup Chats, allowed \in BOOLEAN :
                \E member \in [Pair -> BOOLEAN], sent \in [Pair -> BOOLEAN] :
                    import_users_to_channel(invoker, target, source, allowed,
                                            member, sent)
        ELSE import_users_to_channel(invoker, target, NoArg, TRUE,
                                     [u \in Pair |-> FALSE],
                                     [u \in Pair |-> TRUE])

ImportNext ==
    \/ Register
    \/ TrackJoin
    \/ TrackSettled
    \/ TrackBlock
    \/ ImportUsers

ImportSpec == TrackInit /\ [][ImportNext]_vars

\* /approve_all_pending from the admin and from the users, when both users
\* can hold a record: the loop (781-796) runs once per record, and the
\* approve call of each returns or raises
PairApproveAll ==
    /\ UNCHANGED judged
    /\ \E invoker \in {ADMIN_ID} \cup Pair, start_ok \in BOOLEAN,
          ok \in [Pair -> BOOLEAN] :
           approve_all_pending(invoker, start_ok, ok)

ApproveAllNext ==
    \/ TrackJoin
    \/ PairApproveAll

ApproveAllSpec == TrackInit /\ [][ApproveAllNext]_vars

-----------------------------------------------------------------------------
(* The workflow handlers await by await.  A step runs a handler from one    *)
(* await to the next: Begin from the entry to the first platform call the   *)
(* handler awaits, Resume from the return of that call (ok = FALSE when it  *)
(* raised) to the next one or to the end.  The dispatcher starts a handler  *)
(* when the one before has ended.  last and hist, the history of whole      *)
(* handlers, are left alone.                                                *)

\* A read or write of PENDING_VERIFICATIONS, BLOCKED_USERS or BULK_APPROVAL_MODE
Touch(r) == [r EXCEPT !.touched = TRUE, !.split = @ \/ r.gap]

\* "await" of a platform call: the execution is suspended at pc
Await(r, pc) == [r EXCEPT !.pc = pc, !.gap = @ \/ r.touched]

\* return, or the end of the function: the local variables are gone, what
\* stays is which handler ran and whether its accesses were split
Done(r) == [Idle EXCEPT !.op = r.op, !.split = r.split]

Started(op, user_id, channel_id, text) ==
    [Idle EXCEPT !.op = op, !.user = user_id, !.chat = channel_id, !.text = text]

\* The execution of the handler for user_id's update moves on to r; the
\* executions for the other users stay where they are
Proceeds(user_id, r) == running' = [running EXCEPT ![user_id] = r]

\* handle_join_request from line 461 to its first await, at 479, 487 or
\* 493; track_user_activity 'pending' (471) comes first
handle_join_request_begin(user_id, channel_id) ==
    LET r == Touch(Started("join", user_id, channel_id, NoText))
    IN  /\ Proceeds(user_id, IF BulkMode(channel_id)
                               THEN Await(r, "approve_bulk")
                               ELSE IF user_id \in BLOCKED_USERS
                                    THEN Await(r, "decline")
                                    ELSE Await(r, "get_chat"))
        /\ USER_DATABASE' = Requested(user_id, channel_id)
        /\ UNCHANGED << PENDING_VERIFICATIONS, BLOCKED_USERS, BULK_APPROVAL_MODE,
                        MANAGED_CHANNELS, VERIFIED_FOR_CHANNELS, awaiting_code,
                        now, last, hist, account, verdict, feeds >>
        /\ KeysKept

\* handle_join_request after an await: after get_chat (493) the record is
\* stored (503-510) unless the profile is declined (496); an approve or
\* decline call that returned (ok) is followed by track_user_activity (480,
\* 488, 497); the send_message is the last thing the handler does
handle_join_request_resume(user_id, profile, verification_code, ok) ==
    /\ running[user_id].op = "join"
    /\ running[user_id].pc # "done"
    /\ IF running[user_id].pc = "get_chat"
       THEN IF ~check_user_legitimacy(profile)
            THEN /\ Proceeds(user_id, Await(running[user_id], "decline"))
                 /\ UNCHANGED << PENDING_VERIFICATIONS, USER_DATABASE >>
            ELSE /\ PENDING_VERIFICATIONS' =
                        DictPut(PENDING_VERIFICATIONS, running[user_id].user,
                                NewVerification(running[user_id].chat, verification_code))
                 /\ Proceeds(user_id, Await(Touch(running[user_id]), "send_message"))
                 /\ UNCHANGED USER_DATABASE
       ELSE /\ Proceeds(user_id, Done(running[user_id]))
            /\ USER_DATABASE' =
                  IF ok /\ running[user_id].pc = "approve_bulk"
                  THEN Tracked(USER_DATABASE, running[user_id].user, running[user_id].chat,
                               "approved")
                  ELSE IF ok /\ running[user_id].pc = "decline"
                  THEN Tracked(USER_DATABASE, running[user_id].user, running[user_id].chat,
                               "rejected")
                  ELSE USER_DATABASE
            /\ UNCHANGED PENDING_VERIFICATIONS
    /\ UNCHANGED << BLOCKED_USERS, BULK_APPROVAL_MODE, MANAGED_CHANNELS,
                    VERIFIED_FOR_CHANNELS, awaiting_code, now, last, hist,
                    account, verdict, feeds >>
    /\ KeysKept

\* enter_code_callback and resend_code_callback up to "await query.answer"
\* (528, 538)
callback_begin(op, user_id) ==
    /\ Proceeds(user_id, Await(Started(op, user_id, NoChat, NoText), "answer"))
    /\ UNCHANGED << PENDING_VERIFICATIONS, BLOCKED_USERS, BULK_APPROVAL_MODE,
                    MANAGED_CHANNELS, VERIFIED_FOR_CHANNELS, awaiting_code,
                    now, last, hist, account, verdict, feeds >>
    /\ UNCHANGED USER_DATABASE
    /\ KeysKept

\* Variant of enter_code_callback_resume: the awaiting-code flag is one flag
\* of the bot, not an entry of the user_data of the user who pressed the
\* button.
enter_code_resume_shared_flag(user_id, ok) ==
    /\ running[user_id].op = "enter"
    /\ running[user_id].pc # "done"
    /\ IF running[user_id].pc = "answer" /\ ok
       THEN /\ Proceeds(user_id,
                        IF running[user_id].user \notin DOMAIN PENDING_VERIFICATIONS
                        THEN Await(Touch(running[user_id]), "edit_no_pending")
                        ELSE Await(Touch(running[user_id]), "edit"))
            /\ UNCHANGED awaiting_code
       ELSE /\ Proceeds(user_id, Done(running[user_id]))
            /\ awaiting_code' =
                  IF running[user_id].pc = "edit" /\ ok
                  THEN [u \in DOMAIN awaiting_code |-> TRUE]
                  ELSE awaiting_code
    /\ UNCHANGED << PENDING_VERIFICATIONS, BLOCKED_USERS, BULK_APPROVAL_MODE,
                    MANAGED_CHANNELS, VERIFIED_FOR_CHANNELS, now, last, hist,
                    account, verdict, feeds >>
    /\ UNCHANGED USER_DATABASE
    /\ KeysKept

\* enter_code_callback after an await: 530-532 after the answer, 533 after
\* the edit at 532
enter_code_callback_resume(user_id, ok) ==
    /\ running[user_id].op = "enter"
    /\ running[user_id].pc # "done"
    /\ IF running[user_id].pc = "answer" /\ ok
       THEN /\ Proceeds(user_id,
                        IF running[user_id].user \notin DOMAIN PENDING_VERIFICATIONS
                        THEN Await(Touch(running[user_id]), "edit_no_pending")
                        ELSE Await(Touch(running[user_id]), "edit"))
            /\ UNCHANGED awaiting_code
       ELSE /\ Proceeds(user_id, Done(running[user_id]))
            /\ awaiting_code' =
                  IF running[user_id].pc = "edit" /\ ok
                  THEN [awaiting_code EXCEPT ![running[user_id].user] = TRUE]
                  ELSE awaiting_code
    /\ UNCHANGED << PENDING_VERIFICATIONS, BLOCKED_USERS, BULK_APPROVAL_MODE,
                    MANAGED_CHANNELS, VERIFIED_FOR_CHANNELS, now, last, hist,
                    account, verdict, feeds >>
    /\ UNCHANGED USER_DATABASE
    /\ KeysKept

\* resend_code_callback after an await: 539-547 after the answer; the edits
\* at 540 and 552 are the last thing it does
resend_code_callback_resume(user_id, ok, new_code) ==
    /\ running[user_id].op = "resend"
    /\ running[user_id].pc # "done"
    /\ IF running[user_id].pc = "answer" /\ ok
       THEN IF running[user_id].user \notin DOMAIN PENDING_VERIFICATIONS
            THEN /\ Proceeds(user_id, Await(Touch(running[user_id]), "edit_no_pending"))
                 /\ UNCHANGED PENDING_VERIFICATIONS
            ELSE /\ PENDING_VERIFICATIONS' =
                        [PENDING_VERIFICATIONS EXCEPT
                            ![running[user_id].user] = Reissue(@, new_code)]
                 /\ Proceeds(user_id, Await(Touch(running[user_id]), "edit"))
       ELSE /\ Proceeds(user_id, Done(running[user_id]))
            /\ UNCHANGED PENDING_VERIFICATIONS
    /\ UNCHANGED << BLOCKED_USERS, BULK_APPROVAL_MODE, MANAGED_CHANNELS,
                    VERIFIED_FOR_CHANNELS, awaiting_code, now, last, hist,
                    account, verdict, feeds >>
    /\ UNCHANGED USER_DATABASE
    /\ KeysKept

\* handle_content (950-951) and handle_verification_code from 559 to its
\* first await: the reply at 567, 575, 602 or 608, or the approve at 588
handle_verification_code_begin(user_id, text) ==
    /\ LET r == Started("code", user_id, NoChat, text)
           t == Touch(r)
       IN  IF ~awaiting_code[user_id]
           THEN /\ Proceeds(user_id, Done(r))
                /\ UNCHANGED << PENDING_VERIFICATIONS, BLOCKED_USERS, awaiting_code >>
           ELSE IF user_id \notin DOMAIN PENDING_VERIFICATIONS
           THEN /\ Proceeds(user_id, Await(t, "reply_no_pending"))
                /\ UNCHANGED << PENDING_VERIFICATIONS, BLOCKED_USERS, awaiting_code >>
           ELSE
             LET verification == PENDING_VERIFICATIONS[user_id]
                 counted == CountAttempt(verification)
                 held == [t EXCEPT !.chat = verification.channel_id]
             IN  IF CodeExpired(verification)
                 THEN /\ PENDING_VERIFICATIONS' = DictDel(PENDING_VERIFICATIONS, user_id)
                      /\ awaiting_code' = [awaiting_code EXCEPT ![user_id] = FALSE]
                      /\ Proceeds(user_id, Await(held, "reply_then_decline"))
                      /\ UNCHANGED BLOCKED_USERS
                 ELSE IF SubmittedCode(text) = counted.code
                 THEN /\ PENDING_VERIFICATIONS' =
                             [PENDING_VERIFICATIONS EXCEPT ![user_id] = counted]
                      /\ awaiting_code' = [awaiting_code EXCEPT ![user_id] = FALSE]
                      /\ Proceeds(user_id, Await(held, "approve"))
                      /\ UNCHANGED BLOCKED_USERS
                 ELSE IF counted.max_attempts - counted.attempts > 0
                 THEN /\ PENDING_VERIFICATIONS' =
                             [PENDING_VERIFICATIONS EXCEPT ![user_id] = counted]
                      /\ Proceeds(user_id, Await(held, "reply_incorrect"))
                      /\ UNCHANGED << BLOCKED_USERS, awaiting_code >>
                 ELSE /\ PENDING_VERIFICATIONS' = DictDel(PENDING_VERIFICATIONS, user_id)
                      /\ awaiting_code' = [awaiting_code EXCEPT ![user_id] = FALSE]
                      /\ BLOCKED_USERS' = BLOCKED_USERS \cup {user_id}
                      /\ Proceeds(user_id, Await(held, "reply_then_decline"))
    /\ UNCHANGED << BULK_APPROVAL_MODE, MANAGED_CHANNELS, VERIFIED_FOR_CHANNELS,
                    now, last, hist, account, verdict, feeds, USER_DATABASE >>
    /\ KeysKept

\* handle_verification_code after an await.  After the approve (588) and the
\* "Verified!" reply (590) have returned, the chat is appended to
\* VERIFIED_FOR_CHANNELS and the record is deleted (594-597); when either
\* raises, the handler replies with the error (599).  track_user_activity
\* follows the approve (589) and decline (578, 611) calls that returned.
handle_verification_code_resume(user_id, ok) ==
    /\ running[user_id].op = "code"
    /\ running[user_id].pc # "done"
    /\ CASE running[user_id].pc = "approve" ->
              /\ Proceeds(user_id,
                    IF ok /\ ~TrackRaises(USER_DATABASE, running[user_id].user, FALSE)
                    THEN Await(running[user_id], "reply_verified")
                    ELSE Await(running[user_id], "reply_error"))
              /\ USER_DATABASE' =
                    IF ok
                    THEN TrackedIfKnown(USER_DATABASE, running[user_id].user,
                                        running[user_id].chat, "approved")
                    ELSE USER_DATABASE
              /\ UNCHANGED << PENDING_VERIFICATIONS, VERIFIED_FOR_CHANNELS,
                              awaiting_code >>
         [] running[user_id].pc = "decline" ->
              /\ Proceeds(user_id, Done(running[user_id]))
              /\ USER_DATABASE' =
                    IF ok
                    THEN TrackedIfKnown(USER_DATABASE, running[user_id].user,
                                        running[user_id].chat, "rejected")
                    ELSE USER_DATABASE
              /\ UNCHANGED << PENDING_VERIFICATIONS, VERIFIED_FOR_CHANNELS,
                              awaiting_code >>
         [] running[user_id].pc = "reply_verified" ->
              IF ok
              THEN /\ VERIFIED_FOR_CHANNELS' =
                          VerifiedAppend(running[user_id].user, running[user_id].chat)
                   /\ PENDING_VERIFICATIONS' =
                          DictDel(PENDING_VERIFICATIONS, running[user_id].user)
                   /\ Proceeds(user_id, Done(Touch(running[user_id])))
                   /\ UNCHANGED << awaiting_code, USER_DATABASE >>
              ELSE /\ Proceeds(user_id, Await(running[user_id], "reply_error"))
                   /\ UNCHANGED << PENDING_VERIFICATIONS, VERIFIED_FOR_CHANNELS,
                                   awaiting_code, USER_DATABASE >>
         [] running[user_id].pc = "reply_then_decline" ->
              /\ Proceeds(user_id, IF ok THEN Await(running[user_id], "decline")
                                         ELSE Done(running[user_id]))
              /\ UNCHANGED << PENDING_VERIFICATIONS, VERIFIED_FOR_CHANNELS,
                              awaiting_code, USER_DATABASE >>
         [] running[user_id].pc = "reply_no_pending" ->
              /\ Proceeds(user_id, Done(running[user_id]))
              /\ awaiting_code' =
                    IF ok THEN [awaiting_code EXCEPT ![running[user_id].user] = FALSE]
                          ELSE awaiting_code
              /\ UNCHANGED << PENDING_VERIFICATIONS, VERIFIED_FOR_CHANNELS,
                              USER_DATABASE >>
         [] OTHER ->
              /\ Proceeds(user_id, Done(running[user_id]))
              /\ UNCHANGED << PENDING_VERIFICATIONS, VERIFIED_FOR_CHANNELS,
                              awaiting_code, USER_DATABASE >>
    /\ UNCHANGED << BLOCKED_USERS, BULK_APPROVAL_MODE, MANAGED_CHANNELS, now,
                    last, hist, account, verdict, feeds >>
    /\ KeysKept

AwaitInit == Init

\* The dispatcher starts the handler of the next update when none is running
\* (Application is built with the defaults, 1030: no concurrent updates,
\* blocking handlers)
NoneRunning == \A u \in Pair : running[u].pc = "done"

BeginJoin ==
    /\ NoneRunning
    /\ \E user_id \in Users, channel_id \in FirstChat :
          /\ VerifiedCount(user_id) < MaxVerified
          /\ handle_join_request_begin(user_id, channel_id)

ResumeJoin ==
    \E user_id \in Users, profile \in Profiles,
       verification_code \in generate_verification_code, ok \in BOOLEAN :
        handle_join_request_resume(user_id, profile, verification_code, ok)

BeginCallback ==
    /\ NoneRunning
    /\ \E op \in {"enter", "resend"}, user_id \in Users : callback_begin(op, user_id)

ResumeEnter ==
    \E user_id \in Users, ok \in BOOLEAN : enter_code_callback_resume(user_id, ok)

ResumeResend ==
    \E user_id \in Users, ok \in BOOLEAN, new_code \in generate_verification_code :
        resend_code_callback_resume(user_id, ok, new_code)

BeginCode ==
    /\ NoneRunning
    /\ \E user_id \in Users, text \in Texts :
          /\ BelowAttemptsCap(user_id)
          /\ handle_verification_code_begin(user_id, text)

ResumeCode ==
    \E user_id \in Users, ok \in BOOLEAN : handle_verification_code_resume(user_id, ok)

\* The forwarded message that registers a chat and the admin's bulk command
\* are handled between two workflow handlers
RegisterBetween ==
    /\ NoneRunning
    /\ Register

ToggleBulkBetween ==
    /\ NoneRunning
    /\ ToggleFirstChat


AwaitNext ==
    \/ BeginJoin
    \/ ResumeJoin
    \/ BeginCallback
    \/ ResumeEnter
    \/ ResumeResend
    \/ BeginCode
    \/ ResumeCode
    \/ RegisterBetween
    \/ ToggleBulkBetween
    \/ Clock

AwaitSpec == AwaitInit /\ [][AwaitNext]_vars

-----------------------------------------------------------------------------
(* Two users await by await.  While the handler of one user's update is     *)
(* suspended in a platform call, the handler of the other user's update     *)
(* starts, resumes or ends; the updates of one user are handled one after   *)
(* the other.  The runs in which the handlers follow one another whole are  *)
(* among these.  Every platform call returns or raises.  Each user sends    *)
(* one join request, for its own chat, and types while its record has not   *)
(* reached MAX_ATTEMPTS; the admin registers chat 1 and switches its bulk   *)
(* mode on before the first join request; the clock stands still.           *)

\* What the users type: the code of user 1 with blanks and in lower case, and
\* the code of user 2; each is an incorrect code for the other user
PairTexts ==
    { << " ", "a", "b", "1", "2", "c", "d", " " >>,
      << "X", "Y", "9", "9", "Z", "Z" >> }

\* The updates a user sends: a join request, a press of "Enter Code" or
\* "Resend", a text
PairUpdates ==
    { [kind |-> k, text |-> NoText] : k \in {"join", "enter", "resend"} }
        \cup { [kind |-> "content", text |-> t] : t \in PairTexts }

\* What comes back from the platform call a handler is suspended in: the
\* call returned or raised (ok), and get_chat gave the profile
PairReturns == { [ok |-> o, profile |-> p] : o \in BOOLEAN, p \in PairProfiles }

\* The handler of user_id's update e runs up to its first await.  A user's
\* update is handled when the handler of its previous one has returned; a
\* user sends one join request, and no text once its record counts
\* MAX_ATTEMPTS submissions (a record kept by failed approve calls), which
\* keeps the attempts counter bounded.
Begins(user_id, e) ==
    /\ running[user_id].pc = "done"
    /\ CASE e.kind = "join" ->
              /\ user_id \notin DOMAIN USER_DATABASE
              /\ handle_join_request_begin(user_id, ChatOf(user_id))
         [] e.kind \in {"enter", "resend"} -> callback_begin(e.kind, user_id)
         [] e.kind = "content" ->
              /\ user_id \in DOMAIN PENDING_VERIFICATIONS
                    => PENDING_VERIFICATIONS[user_id].attempts < MAX_ATTEMPTS
              /\ handle_verification_code_begin(user_id, e.text)

\* The handler suspended for user_id runs from the call that came back to
\* its next await or to its end
Resumes(user_id, ret) ==
    CASE running[user_id].op = "join" ->
            handle_join_request_resume(user_id, ret.profile, CodeOf(user_id),
                                       ret.ok)
      [] running[user_id].op = "enter" -> enter_code_callback_resume(user_id, ret.ok)
      [] running[user_id].op = "resend" ->
            resend_code_callback_resume(user_id, ret.ok, CodeOf(user_id))
      [] running[user_id].op = "code" ->
            handle_verification_code_resume(user_id, ret.ok)
      [] OTHER -> FALSE

PairBegin == \E user_id \in Pair, e \in PairUpdates : Begins(user_id, e)

PairResume == \E user_id \in Pair, ret \in PairReturns : Resumes(user_id, ret)

\* The admin forwards a message of chat 1, where the bot is admin, before
\* the first join request
PairRegister ==
    /\ UNCHANGED judged
    /\ MANAGED_CHANNELS = << >>
    /\ USER_DATABASE = << >>
    /\ handle_forwarded_message(1, TRUE)

\* The admin sends /toggle_bulk 1 and turns bulk mode on, before the first
\* join request
PairToggleBulk ==
    /\ ~BulkMode(1)
    /\ USER_DATABASE = << >>
    /\ ToggleFirstChat

PairNext ==
    \/ PairBegin
    \/ PairResume
    \/ PairRegister
    \/ PairToggleBulk

PairSpec == PairInit /\ [][PairNext]_vars

-----------------------------------------------------------------------------
(* Vocabulary of the properties.  In an action property the unprimed        *)
(* variables are the state a handler starts in, the primed ones the state   *)
(* it leaves, and last' describes the handler that ran.                     *)

HasRecord(user_id) == user_id \in DOMAIN PENDING_VERIFICATIONS

\* Seconds since the record's code was issued
Elapsed(user_id) == now - PENDING_VERIFICATIONS[user_id].timestamp

WithinWindow(user_id) == Elapsed(user_id) <= CODE_EXPIRY_MINUTES * 60

\* The bulk-approval flag of a chat as stored: on only if there is an entry
FlagOn(channel_id) ==
    /\ channel_id \in DOMAIN BULK_APPROVAL_MODE
    /\ BULK_APPROVAL_MODE[channel_id]

CallsOf(calls, f) == SelectSeq(calls, LAMBDA c : c.f = f)

IsCallTo(c, f, channel_id, user_id) ==
    c.f = f /\ c.chat = channel_id /\ c.user = user_id

\* The handler that ran is a code submission by user_id, who was in
\* awaiting-code mode and had a record
SubmissionBy(user_id) ==
    /\ last'.op = "code"
    /\ last'.user = user_id
    /\ awaiting_code[user_id]
    /\ HasRecord(user_id)

Matches(user_id) ==
    SubmittedCode(last'.text) = PENDING_VERIFICATIONS[user_id].code

-----------------------------------------------------------------------------
\* C1: a user with a record, in awaiting-code mode, submits text that trimmed
\* and upper-cased equals the record's code, no later than 5 minutes after it
\* was issued, and the approve call returns: the handler makes exactly one
\* approve call, for (record.channel_id, user), and leaves no record.
C1_ApprovedRemovesRecord ==
    [][\A u \in Users :
          ( /\ SubmissionBy(u)
            /\ Matches(u)
            /\ WithinWindow(u)
            /\ \E i \in 1..Len(last'.calls) :
                   last'.calls[i].f = "approve" /\ last'.calls[i].ok )
          => /\ Len(CallsOf(last'.calls, "approve")) = 1
             /\ IsCallTo(CallsOf(last'.calls, "approve")[1], "approve",
                         PENDING_VERIFICATIONS[u].channel_id, u)
             /\ u \notin DOMAIN PENDING_VERIFICATIONS'
      ]_vars

\* C2: the code handler calls approve only when the user has a record, the
\* record's code was issued no more than 5 minutes ago, and the text submitted
\* equals the record's current code after trimming and upper-casing.
C2_ApproveOnlyOnCurrentCode ==
    [][\A u \in Users :
          ( /\ last'.op = "code"
            /\ last'.user = u
            /\ CallsOf(last'.calls, "approve") # << >> )
          => /\ HasRecord(u)
             /\ WithinWindow(u)
             /\ Matches(u)
      ]_vars

\* C3: a submission, correct or not, made more than 300 seconds after the
\* code was issued (a day or more included) is EXPIRED: the record is deleted,
\* approve is not called, the user is not added to the block list, and decline
\* is called exactly once, for (record.channel_id, user).
C3_LateSubmissionExpires ==
    [][\A u \in Users :
          ( SubmissionBy(u) /\ ~WithinWindow(u) )
          => /\ last'.outcome = "EXPIRED"
             /\ u \notin DOMAIN PENDING_VERIFICATIONS'
             /\ CallsOf(last'.calls, "approve") = << >>
             /\ BLOCKED_USERS' = BLOCKED_USERS
             /\ Len(CallsOf(last'.calls, "decline")) = 1
             /\ IsCallTo(CallsOf(last'.calls, "decline")[1], "decline",
                         PENDING_VERIFICATIONS[u].channel_id, u)
      ]_vars

\* C4: of the incorrect, unexpired submissions against a record that started
\* at attempts = 0 and has seen nothing but incorrect submissions, the first
\* and the second leave the record pending and the third blocks: the user is
\* on the block list, the record is deleted, awaiting-code mode is cleared and
\* decline is called exactly once, for (record.channel_id, user).
C4_ThirdIncorrectBlocks ==
    [][\A u \in Users :
          ( /\ SubmissionBy(u)
            /\ WithinWindow(u)
            /\ ~Matches(u)
            /\ hist[u].wrong = hist[u].subs
            /\ PENDING_VERIFICATIONS[u].attempts = hist[u].wrong )
          => IF hist[u].wrong < MAX_ATTEMPTS - 1
             THEN /\ u \in DOMAIN PENDING_VERIFICATIONS'
                  /\ u \notin BLOCKED_USERS'
             ELSE /\ u \in BLOCKED_USERS'
                  /\ u \notin DOMAIN PENDING_VERIFICATIONS'
                  /\ ~awaiting_code'[u]
                  /\ Len(CallsOf(last'.calls, "decline")) = 1
                  /\ IsCallTo(CallsOf(last'.calls, "decline")[1], "decline",
                              PENDING_VERIFICATIONS[u].channel_id, u)
      ]_vars

\* The events a requesting user causes
UserOps == {"join", "enter", "resend", "code", "content"}

Issued == {"ISSUED", "ISSUED_UNDELIVERED"}

\* C5 (as claimed): no event a user causes grants a new attempt budget: a join
\* request, a resend, an enter-code press or a submission never lowers the
\* attempts of the record the user holds.
C5_NoEventRenewsBudget ==
    [][\A u \in Users :
          ( /\ last'.op \in UserOps
            /\ last'.user = u
            /\ HasRecord(u)
            /\ u \in DOMAIN PENDING_VERIFICATIONS' )
          => PENDING_VERIFICATIONS'[u].attempts
                 >= PENDING_VERIFICATIONS[u].attempts
      ]_vars

\* C5 (amended): the budget is per record.  A record that is still pending has
\* seen fewer than 3 incorrect submissions, none of them uncounted; the
\* unexpired incorrect submission that follows two others against the record
\* blocks the user; a resend, an enter-code press or a submission never lowers
\* the attempts of a record; a join request that issues a code leaves the user
\* with a record of attempts = 0.
C5_BudgetPerRecord ==
    [][\A u \in Users :
          /\ u \in DOMAIN PENDING_VERIFICATIONS'
                => /\ hist'[u].wrong < MAX_ATTEMPTS
                   /\ hist'[u].wrong <= PENDING_VERIFICATIONS'[u].attempts
          /\ ( /\ SubmissionBy(u)
               /\ WithinWindow(u)
               /\ ~Matches(u)
               /\ hist[u].wrong = MAX_ATTEMPTS - 1 )
                => u \in BLOCKED_USERS'
          /\ ( /\ last'.op \in {"enter", "resend", "code"}
               /\ last'.user = u
               /\ HasRecord(u)
               /\ u \in DOMAIN PENDING_VERIFICATIONS' )
                => PENDING_VERIFICATIONS'[u].attempts
                       >= PENDING_VERIFICATIONS[u].attempts
          /\ ( /\ last'.op = "join"
               /\ last'.user = u
               /\ last'.outcome \in Issued )
                => /\ u \in DOMAIN PENDING_VERIFICATIONS'
                   /\ PENDING_VERIFICATIONS'[u].attempts = 0
      ]_vars

\* A resend has just reissued the code of a record that two incorrect
\* submissions were counted against
C5_ResentAfterTwoIncorrect ==
    /\ last.op = "resend"
    /\ last.outcome = "RESENT"
    /\ HasRecord(last.user)
    /\ hist[last.user].wrong = 2
    /\ PENDING_VERIFICATIONS[last.user].attempts = 2

\* C6 (as claimed): a join request of a user on the block list, whatever the
\* bulk-approval flag of the chat, makes one decline call for (chat, user) and
\* no approve call, sends no code and leaves the verification map as it was.
C6_BlockedAlwaysDeclined ==
    [][\A u \in Users :
          ( /\ last'.op = "join"
            /\ last'.user = u
            /\ u \in BLOCKED_USERS )
          => /\ Len(CallsOf(last'.calls, "decline")) = 1
             /\ IsCallTo(CallsOf(last'.calls, "decline")[1], "decline",
                         last'.chat, u)
             /\ CallsOf(last'.calls, "approve") = << >>
             /\ last'.sent = << >>
             /\ PENDING_VERIFICATIONS' = PENDING_VERIFICATIONS
      ]_vars

\* C6 (amended): a join request of a user on the block list to a chat whose
\* bulk-approval flag is not on makes one decline call for (chat, user) and no
\* approve call, sends no code and leaves the verification map as it was; and
\* no event a user causes takes anyone off the block list.
C6_BlockedDeclinedUnlessBulk ==
    [][\A u \in Users :
          /\ ( /\ last'.op = "join"
               /\ last'.user = u
               /\ u \in BLOCKED_USERS
               /\ ~FlagOn(last'.chat) )
                => /\ Len(CallsOf(last'.calls, "decline")) = 1
                   /\ IsCallTo(CallsOf(last'.calls, "decline")[1], "decline",
                               last'.chat, u)
                   /\ CallsOf(last'.calls, "approve") = << >>
                   /\ last'.sent = << >>
                   /\ PENDING_VERIFICATIONS' = PENDING_VERIFICATIONS
          /\ last'.op \in UserOps => BLOCKED_USERS \subseteq BLOCKED_USERS'
      ]_vars

\* A blocked user's join request to a chat that has no bulk-approval entry was
\* declined, and the decline call raised
C6_BlockedUserDeclined ==
    /\ last.op = "join"
    /\ last.outcome = "BLOCKED_USER"
    /\ last.user \in BLOCKED_USERS
    /\ last.chat \notin DOMAIN BULK_APPROVAL_MODE
    /\ ~last.calls[1].ok

\* C7: a join request to a chat whose bulk-approval flag is on makes exactly
\* one platform call, approve for (chat, user), so the profile is not looked
\* up; it sends no code and leaves the verification map as it was, whether or
\* not the approve call returns.
C7_BulkApprovesAtOnce ==
    [][\A u \in Users :
          ( /\ last'.op = "join"
            /\ last'.user = u
            /\ FlagOn(last'.chat) )
          => /\ Len(last'.calls) = 1
             /\ IsCallTo(last'.calls[1], "approve", last'.chat, u)
             /\ last'.sent = << >>
             /\ PENDING_VERIFICATIONS' = PENDING_VERIFICATIONS
      ]_vars

\* A join request to a bulk-mode chat by a user who holds a record for another
\* chat: the approve call raised and the record is still there
C7_BulkApproveFailedRecordKept ==
    /\ last.op = "join"
    /\ last.outcome = "BULK"
    /\ FlagOn(last.chat)
    /\ ~last.calls[1].ok
    /\ HasRecord(last.user)
    /\ PENDING_VERIFICATIONS[last.user].channel_id # last.chat

\* C8: every record has attempts <= max_attempts.
C8_AttemptsWithinMax ==
    \A u \in DOMAIN PENDING_VERIFICATIONS :
        PENDING_VERIFICATIONS[u].attempts
            <= PENDING_VERIFICATIONS[u].max_attempts

\* C9: the attempts of a record is the number of incorrect submissions made
\* against it since it was created.
C9_AttemptsCountIncorrect ==
    \A u \in DOMAIN PENDING_VERIFICATIONS :
        PENDING_VERIFICATIONS[u].attempts = hist[u].wrong

\* C10: an incorrect submission against a record whose code was issued no more
\* than 5 minutes ago, if the record survives it, adds exactly 1 to attempts
\* and leaves every other field of the record as it was.
C10_IncorrectAddsOne ==
    [][\A u \in Users :
          ( /\ SubmissionBy(u)
            /\ WithinWindow(u)
            /\ ~Matches(u)
            /\ u \in DOMAIN PENDING_VERIFICATIONS' )
          => LET before == PENDING_VERIFICATIONS[u]
                 after == PENDING_VERIFICATIONS'[u]
             IN  /\ after.attempts = before.attempts + 1
                 /\ after.code = before.code
                 /\ after.timestamp = before.timestamp
                 /\ after.channel_id = before.channel_id
                 /\ after.channel_name = before.channel_name
      ]_vars

\* The second incorrect submission against a record has just been counted
C10_SecondIncorrectCounted ==
    /\ last.op = "code"
    /\ last.outcome = "INCORRECT"
    /\ HasRecord(last.user)
    /\ PENDING_VERIFICATIONS[last.user].attempts = 2
    /\ SubmittedCode(last.text) # PENDING_VERIFICATIONS[last.user].code

-----------------------------------------------------------------------------
\* C11 (as claimed): every resend for a user with a record puts a newly
\* generated code in the record and the current time as its timestamp; it
\* leaves attempts, channel_id and channel_name as they were, leaves the
\* verification map with the same keys (no second record), and makes no
\* approve or decline call.  As an action property this is about each of
\* any number of successive resends.
C11_ResendReissuesInPlace ==
    [][\A u \in Users :
          ( /\ last'.op = "resend"
            /\ last'.user = u
            /\ HasRecord(u) )
          => /\ DOMAIN PENDING_VERIFICATIONS' = DOMAIN PENDING_VERIFICATIONS
             /\ \E c \in generate_verification_code :
                   PENDING_VERIFICATIONS'[u] =
                       [PENDING_VERIFICATIONS[u] EXCEPT
                           !.code = c, !.timestamp = now']
             /\ CallsOf(last'.calls, "approve") = << >>
             /\ CallsOf(last'.calls, "decline") = << >>
      ]_vars

\* C12 (as claimed): for a user with no record, a text submitted as a code,
\* an enter-code press and a resend press each answer "no pending
\* verification", leave the verification map, the block list and the
\* verified-chats map as they were, and make no approve or decline call.
C12_NoRecordNoEffect ==
    [][\A u \in Users :
          ( /\ last'.user = u
            /\ ~HasRecord(u)
            /\ \/ last'.op = "code" /\ awaiting_code[u]
               \/ last'.op \in {"enter", "resend"} )
          => /\ last'.replies = << "NO_PENDING" >>
             /\ PENDING_VERIFICATIONS' = PENDING_VERIFICATIONS
             /\ BLOCKED_USERS' = BLOCKED_USERS
             /\ VERIFIED_FOR_CHANNELS' = VERIFIED_FOR_CHANNELS
             /\ CallsOf(last'.calls, "approve") = << >>
             /\ CallsOf(last'.calls, "decline") = << >>
      ]_vars

\* The join requests (chat, user) that the handler that ran resolved: those it
\* approved or declined with a call that returned
Resolved ==
    { << last'.calls[i].chat, last'.calls[i].user >> :
        i \in { j \in 1..Len(last'.calls) :
                  /\ last'.calls[j].f \in {"approve", "decline"}
                  /\ last'.calls[j].ok } }

\* C13: when a handler has approved or declined the join request of a user to
\* a chat (in a code submission: verification, expiry, exhaustion; in a join
\* request: the bulk and block-list fast paths), it leaves no record of that
\* user for that chat in the verification map.
C13_NoRecordAfterResolution ==
    [][\A u \in Users, c \in Chats :
          ( /\ << c, u >> \in Resolved
            /\ last'.outcome # "REJECTED" )
          => ~( /\ u \in DOMAIN PENDING_VERIFICATIONS'
                /\ PENDING_VERIFICATIONS'[u].channel_id = c )
      ]_vars

\* C14: in every step, the code of a record that a user holds before and
\* after the step changes only in a join request or a resend of that user,
\* and then the timestamp of the record is the time of the step; every other
\* handler (code submission, enter-code, admin commands, registration) and
\* the clock leave the code and the timestamp of a surviving record alone.
C14_CodeChangesOnlyOnIssue ==
    [][\A u \in Users :
          ( HasRecord(u) /\ u \in DOMAIN PENDING_VERIFICATIONS' )
          => LET before == PENDING_VERIFICATIONS[u]
                 after == PENDING_VERIFICATIONS'[u]
             IN  /\ after.code # before.code
                       => /\ last'.op \in {"join", "resend"}
                          /\ last'.user = u
                          /\ after.timestamp = now'
                 /\ ~(last'.op \in {"join", "resend"} /\ last'.user = u)
                       => /\ after.code = before.code
                          /\ after.timestamp = before.timestamp
      ]_vars

\* A correct code was submitted later than it was issued and the approve call
\* raised: the record is still there with the code and the time of issue
C14_RecordKeptAfterSubmission ==
    /\ last.op = "code"
    /\ last.outcome = "APPROVE_FAILED"
    /\ HasRecord(last.user)
    /\ PENDING_VERIFICATIONS[last.user].timestamp < now
    /\ PENDING_VERIFICATIONS[last.user].code = SubmittedCode(last.text)

\* C15: when the code submitted is the record's code, no more than 5 minutes
\* old, and the approve call raises, the record stays in the verification map
\* with the same code, channel_id and timestamp, the block list and the
\* verified-chats map are as they were, and no decline call is made.
C15_ApproveFailureKeepsRecord ==
    [][\A u \in Users :
          ( /\ SubmissionBy(u)
            /\ Matches(u)
            /\ WithinWindow(u)
            /\ \E i \in 1..Len(last'.calls) :
                   last'.calls[i].f = "approve" /\ ~last'.calls[i].ok )
          => /\ u \in DOMAIN PENDING_VERIFICATIONS'
             /\ PENDING_VERIFICATIONS'[u].code = PENDING_VERIFICATIONS[u].code
             /\ PENDING_VERIFICATIONS'[u].channel_id
                    = PENDING_VERIFICATIONS[u].channel_id
             /\ PENDING_VERIFICATIONS'[u].timestamp
                    = PENDING_VERIFICATIONS[u].timestamp
             /\ BLOCKED_USERS' = BLOCKED_USERS
             /\ VERIFIED_FOR_CHANNELS' = VERIFIED_FOR_CHANNELS
             /\ CallsOf(last'.calls, "decline") = << >>
      ]_vars

\* The approve call for a correct code, submitted within the window, has just
\* raised: the user holds the record, is not blocked and has no verified chat
C15_ApproveRaisedWithinWindow ==
    /\ last.op = "code"
    /\ last.outcome = "APPROVE_FAILED"
    /\ last.replies = << "ERROR" >>
    /\ HasRecord(last.user)
    /\ WithinWindow(last.user)
    /\ last.user \notin BLOCKED_USERS
    /\ last.user \notin DOMAIN VERIFIED_FOR_CHANNELS

\* C16: a code submission clears the user's awaiting-code flag exactly when
\* it removes the record (EXPIRED, APPROVED, BLOCKED); a submission after
\* which the record is still pending (an incorrect code with attempts left, a
\* correct code whose approve call failed) leaves the flag set.
C16_FlagClearedIffTerminal ==
    [][\A u \in Users :
          SubmissionBy(u)
          => ( awaiting_code'[u] <=> u \in DOMAIN PENDING_VERIFICATIONS' )
      ]_vars

\* C17: a decline call or a reply that raises during a code submission does
\* not keep the submission from completing: a record the handler finds expired
\* is deleted; an incorrect code that uses up the attempts deletes the record
\* and puts the user on the block list; an approve call that returned deletes
\* the record and records the chat as verified.
C17_FailuresLeaveTransitionWhole ==
    [][\A u \in Users :
          SubmissionBy(u)
          => LET verification == PENDING_VERIFICATIONS[u]
                 exhausted ==
                     verification.attempts + 1 >= verification.max_attempts
                 approved ==
                     \E i \in 1..Len(last'.calls) :
                         last'.calls[i].f = "approve" /\ last'.calls[i].ok
             IN  /\ CodeExpired(verification)
                       => u \notin DOMAIN PENDING_VERIFICATIONS'
                 /\ ( ~CodeExpired(verification) /\ ~Matches(u) /\ exhausted )
                       => /\ u \notin DOMAIN PENDING_VERIFICATIONS'
                          /\ u \in BLOCKED_USERS'
                 /\ approved
                       => /\ u \notin DOMAIN PENDING_VERIFICATIONS'
                          /\ u \in DOMAIN VERIFIED_FOR_CHANNELS'
                          /\ \E i \in 1..Len(VERIFIED_FOR_CHANNELS'[u]) :
                                 VERIFIED_FOR_CHANNELS'[u][i]
                                     = verification.channel_id
      ]_vars

\* C18: a join request that issues a code leaves the user with a record of
\* attempts = 0 and max_attempts = 3 that holds the code, sends exactly one
\* message with the code to the requester and exactly one message with the
\* same code to the admin.
C18_IssuanceNotifiesBoth ==
    [][\A u \in Users :
          ( /\ last'.op = "join"
            /\ last'.user = u
            /\ last'.outcome \in Issued )
          => /\ u \in DOMAIN PENDING_VERIFICATIONS'
             /\ PENDING_VERIFICATIONS'[u].attempts = 0
             /\ PENDING_VERIFICATIONS'[u].max_attempts = MAX_ATTEMPTS
             /\ LET code == PENDING_VERIFICATIONS'[u].code
                    to_user == SelectSeq(last'.sent, LAMBDA m : m.to = u)
                    to_admin == SelectSeq(last'.sent,
                                          LAMBDA m : m.to = ADMIN_ID)
                IN  /\ to_user = << CodeMessage(u, code) >>
                    /\ to_admin = << CodeMessage(ADMIN_ID, code) >>
      ]_vars

\* C19: when the message that delivers the code at issuance raises, the
\* handler still ends with the record stored; it makes no approve or decline
\* call, does not send the message again, and leaves the block list as it was.
C19_UndeliveredCodeSwallowed ==
    [][\A u \in Users :
          ( /\ last'.op = "join"
            /\ last'.user = u
            /\ last'.outcome = "ISSUED_UNDELIVERED" )
          => /\ u \in DOMAIN PENDING_VERIFICATIONS'
             /\ CallsOf(last'.calls, "approve") = << >>
             /\ CallsOf(last'.calls, "decline") = << >>
             /\ Len(last'.sent) = 1
             /\ BLOCKED_USERS' = BLOCKED_USERS
      ]_vars

\* The code message of an issuance has just failed: the user holds the record
\* with the code that was not delivered and is not blocked
C19_CodeNotDelivered ==
    /\ last.op = "join"
    /\ last.outcome = "ISSUED_UNDELIVERED"
    /\ HasRecord(last.user)
    /\ PENDING_VERIFICATIONS[last.user].code = last.sent[1].code
    /\ PENDING_VERIFICATIONS[last.user].attempts = 0
    /\ last.user \notin BLOCKED_USERS

\* C20: a join request that reaches the legitimacy check (the chat is not in
\* bulk mode, the user is not blocked) with a profile that is a bot account,
\* whatever its name, or whose first name is suspicious, makes exactly one
\* decline call for that chat and user, generates and sends no code, and
\* leaves the verification map unchanged.  Stated in contrapositive over the
\* handler's inputs: a join step past the two fast paths that is not of that
\* shape is not a step of the handler for any such profile.
C20_IllegitimateProfileDeclined ==
    [][( /\ last'.op = "join"
         /\ last'.chat \notin DOMAIN BULK_APPROVAL_MODE
            \/ ~BULK_APPROVAL_MODE[last'.chat]
         /\ last'.user \notin BLOCKED_USERS
         /\ ~( /\ \E d \in BOOLEAN :
                     CallsOf(last'.calls, "decline")
                         = << Call("decline", last'.chat, last'.user, d) >>
               /\ CallsOf(last'.calls, "approve") = << >>
               /\ last'.sent = << >>
               /\ PENDING_VERIFICATIONS' = PENDING_VERIFICATIONS ) )
       => \A profile \in Profiles, code \in generate_verification_code,
             ok \in BOOLEAN :
             ( /\ profile.ok
               /\ \/ profile.type = "bot"
                  \/ Len(profile.first_name) < 2
                  \/ Len(letters_and_numbers(profile.first_name)) < 2 )
             => ~handle_join_request(last'.user, last'.chat, profile, code, ok)
      ]_vars

\* A join request has just been rejected by the legitimacy check while the
\* user held the record of an earlier request, which is still there
C20_RejectedAtLegitimacy ==
    /\ last.op = "join"
    /\ last.outcome = "REJECTED"
    /\ last.user \notin BLOCKED_USERS
    /\ \E d \in BOOLEAN :
          last.calls = << Lookup(last.user),
                          Call("decline", last.chat, last.user, d) >>
    /\ last.sent = << >>
    /\ HasRecord(last.user)

-----------------------------------------------------------------------------
(* Properties of the legitimacy functions, under LegitimacySpec *)

\* How many characters of a name are of one of the classes
CountOf(name, classes) ==
    Cardinality({ i \in DOMAIN name : name[i] \in classes })

\* The alphanumeric characters of claim C21: of its five classes, the ASCII
\* letters, the digits and the non-ASCII letters
Alphanumeric == {"L", "D", "U"}

\* C21 (as claimed): for every account whose profile could be fetched, with
\* a first name over the five character classes, check_user_legitimacy
\* returns legitimate exactly when the account is not a bot and the name has
\* at least two alphanumeric characters, letters or digits.
C21_LegitimateIffTwoAlnum ==
    ( account.ok /\ verdict.legitimate # << >> )
    => ( verdict.legitimate[1]
           <=> ( /\ account.type # "bot"
                 /\ CountOf(account.first_name, Alphanumeric) >= 2 ) )

\* The name-suspicion test as the specification words it
SpecifiedSuspicious(name) ==
    \/ Len(name) < 2
    \/ CountOf(name, {"L", "D"}) < 2
    \/ CountOf(name, {"D"}) = Len(name)
    \/ CountOf(name, {"P"}) = Len(name)
    \/ CountOf(name, {"W"}) = Len(name)
    \/ 10 * CountOf(name, {"U", "P"}) > 7 * Len(name)

\* C22: is_name_suspicious returns true exactly for the names the specified
\* test calls suspicious: empty or shorter than 2 characters, fewer than 2
\* alphanumeric characters, only digits, only punctuation, only whitespace,
\* or more than 70% characters that are neither alphanumeric nor whitespace.
C22_SuspiciousAsSpecified ==
    verdict.suspicious # << >>
    => ( verdict.suspicious[1] <=> SpecifiedSuspicious(account.first_name) )

-----------------------------------------------------------------------------
(* Properties of the admin commands (Spec; their senders: CommandSpec) and  *)
(* of expired records (ExpirySpec)                                          *)

\* The handlers of the verification workflow that write records: issuance,
\* resend and code submission
WorkflowOps == {"join", "resend", "code"}

\* C23: a step that changes the verification map is a step of the workflow
\* (join-request issuance, resend, code submission); no admin command
\* (block, unblock, force-approve, approve-all, toggle bulk) writes to it.
C23_OnlyWorkflowWritesRecords ==
    [][PENDING_VERIFICATIONS' # PENDING_VERIFICATIONS
          => last'.op \in WorkflowOps]_vars

\* C26: a record whose code was issued longer ago than the expiry window is
\* inert under the user's enter-code presses, resends and submissions: none
\* of them makes an approve call for the user, a submission ends in EXPIRED,
\* and a record that is still there afterwards is still expired.
C26_ExpiredRecordInert ==
    [][\A u \in Users :
          ( /\ HasRecord(u)
            /\ ~WithinWindow(u)
            /\ last'.user = u
            /\ last'.op \in {"enter", "resend", "code"} )
          => /\ CallsOf(last'.calls, "approve") = << >>
             /\ SubmissionBy(u) => last'.outcome = "EXPIRED"
             /\ u \in DOMAIN PENDING_VERIFICATIONS'
                   => now' - PENDING_VERIFICATIONS'[u].timestamp
                          > CODE_EXPIRY_MINUTES * 60
      ]_vars

\* C27: in every state reached with the handlers run one at a time, no user
\* is both on the block list and a key of the verification map.
C27_BlockedHasNoRecord ==
    BLOCKED_USERS \cap DOMAIN PENDING_VERIFICATIONS = {}

\* The admin has just blocked a user who was in awaiting-code mode: the user
\* is on the block list and holds no record
C27_BlockedWhileAwaiting ==
    /\ last.op = "block"
    /\ last.outcome = "BLOCKED"
    /\ awaiting_code[last.user]
    /\ last.user \in BLOCKED_USERS
    /\ ~HasRecord(last.user)

\* The verified chats of a user, empty when there is no entry
VerifiedOf(user_id) ==
    IF user_id \in DOMAIN VERIFIED_FOR_CHANNELS
    THEN VERIFIED_FOR_CHANNELS[user_id]
    ELSE << >>

\* C28: the verified chats of a user grow only by one chat at a time, in a
\* code submission or in approve_all_pending, and only by a chat for which
\* that handler made an approve call for the user that returned; a failed
\* approval, a bulk-mode approval or a decline adds nothing.  Since the
\* verified chats start empty, every chat in them has had such a call.
C28_VerifiedOnlyAfterApprove ==
    [][\A u \in Users :
          VerifiedOf(u)' # VerifiedOf(u)
          => /\ last'.op \in {"code", "approve_all"}
             /\ \E c \in Chats :
                   /\ VerifiedOf(u)' = Append(VerifiedOf(u), c)
                   /\ \E i \in DOMAIN last'.calls :
                         last'.calls[i] = Call("approve", c, u, TRUE)
      ]_vars

\* approve_all_pending has just approved the record of a user: the chat of
\* the approve call is in the user's verified chats
C28_VerifiedByApproveAll ==
    /\ last.op = "approve_all"
    /\ last.outcome = "DONE"
    /\ \E i \in DOMAIN last.calls :
          /\ last.calls[i].ok
          /\ VerifiedOf(last.calls[i].user) = << last.calls[i].chat >>

\* C29: the force-approve of (user, chat) removes the user's record exactly
\* when the approve call returned and the record was issued for that chat;
\* otherwise (another chat, or the approve call raised) the verification map
\* is unchanged.
C29_ForceApproveRemovesOwnChat ==
    [][\A u \in Users :
          ( /\ last'.op = "approve_user"
            /\ last'.user = u
            /\ last'.outcome # "IGNORED"
            /\ HasRecord(u) )
          => /\ u \notin DOMAIN PENDING_VERIFICATIONS'
                   <=> /\ last'.calls = << Call("approve", last'.chat, u, TRUE) >>
                       /\ PENDING_VERIFICATIONS[u].channel_id = last'.chat
             /\ u \in DOMAIN PENDING_VERIFICATIONS'
                   => PENDING_VERIFICATIONS' = PENDING_VERIFICATIONS
      ]_vars

\* The users with a record whose approve call in the handler that ran
\* returned (ok = TRUE) or raised (ok = FALSE)
ApproveCalled(ok) ==
    { u \in DOMAIN PENDING_VERIFICATIONS :
         \E i \in DOMAIN last'.calls :
            last'.calls[i]
                = Call("approve", PENDING_VERIFICATIONS[u].channel_id, u, ok) }

\* The admin has sent /approve_all_pending while there are records
ApproveAllRan ==
    /\ last'.op = "approve_all"
    /\ last'.invoker = << ADMIN_ID >>
    /\ PENDING_VERIFICATIONS # << >>

\* What claim C30 says of a run of approve_all_pending: the records left are
\* exactly those present at its start whose approve call raised, unchanged;
\* every record whose call returned is deleted and its chat appended to the
\* user's verified chats; the reported approved and failed count these two
\* groups and add up to the number of records at the start
Partitioned ==
    /\ Len(last'.calls) = Cardinality(DOMAIN PENDING_VERIFICATIONS)
    /\ ApproveCalled(TRUE) \cup ApproveCalled(FALSE) = DOMAIN PENDING_VERIFICATIONS
    /\ DOMAIN PENDING_VERIFICATIONS' = ApproveCalled(FALSE)
    /\ \A u \in ApproveCalled(FALSE) :
          PENDING_VERIFICATIONS'[u] = PENDING_VERIFICATIONS[u]
    /\ \A u \in ApproveCalled(TRUE) :
          VerifiedOf(u)' = Append(VerifiedOf(u), PENDING_VERIFICATIONS[u].channel_id)
    /\ last'.report.approved = Cardinality(ApproveCalled(TRUE))
    /\ last'.report.failed = Cardinality(ApproveCalled(FALSE))
    /\ last'.report.approved + last'.report.failed
          = Cardinality(DOMAIN PENDING_VERIFICATIONS)

\* C30 (as claimed): after every run of approve_all_pending by the admin
\* over a map that holds records, the records are partitioned as above.
C30_ApproveAllAlwaysPartitions ==
    [][ApproveAllRan => Partitioned]_vars

\* C30 (amended): when the opening reply "Approving N pending..." (777) has
\* returned, approve_all_pending makes one approve call per record present
\* at its start and the records are partitioned as above; when that reply
\* raises, the handler ends there: it makes no approve call and leaves the
\* verification map and the verified chats as they were.
C30_ApproveAllPartitionsRecords ==
    [][ApproveAllRan
          => IF last'.outcome = "DONE"
             THEN Partitioned
             ELSE /\ last'.outcome = "FAILED"
                  /\ last'.replies = << "APPROVING" >>
                  /\ last'.calls = << >>
                  /\ UNCHANGED << PENDING_VERIFICATIONS, VERIFIED_FOR_CHANNELS >>
      ]_vars

\* approve_all_pending has just run over the records of both users: the
\* approve call for user 1 returned, the one for user 2 raised; user 1 is
\* verified for its chat and has no record, the record of user 2 is left,
\* and the report says 1 approved, 1 failed
C30_OneApprovedOneFailed ==
    /\ last.op = "approve_all"
    /\ last.outcome = "DONE"
    /\ Len(last.calls) = 2
    /\ \E i \in DOMAIN last.calls : last.calls[i].user = 1 /\ last.calls[i].ok
    /\ \E i \in DOMAIN last.calls : last.calls[i].user = 2 /\ ~last.calls[i].ok
    /\ ~HasRecord(1)
    /\ VerifiedOf(1) # << >>
    /\ HasRecord(2)
    /\ last.report.approved = 1
    /\ last.report.failed = 1

\* The commands of claim C31, by the op their events carry
GuardedCommands ==
    {"block", "unblock", "approve_user", "approve_all", "toggle_bulk"}

\* C31: block_user, unblock_user, manual_approve_user, approve_all_pending
\* and toggle_bulk_approval, sent by a user who is not the admin, leave
\* PENDING_VERIFICATIONS, BLOCKED_USERS and BULK_APPROVAL_MODE as they were
\* and make no approve or decline call (no platform call at all).
C31_OnlyAdminCommands ==
    [][ ( /\ last'.op \in GuardedCommands
          /\ last'.invoker # << ADMIN_ID >> )
        => /\ UNCHANGED << PENDING_VERIFICATIONS, BLOCKED_USERS, BULK_APPROVAL_MODE >>
           /\ last'.calls = << >> ]_vars

\* User 1, who is not the admin, has sent /toggle_bulk while chat 1 is
\* registered, and /toggle_bulk 1 from the admin would find it; the bulk mode
\* of chat 1 is off as registration left it.  User 1 is on the block list
\* and holds no record.
C31_StrangerToggles ==
    /\ last.op = "toggle_bulk"
    /\ last.invoker = << 1 >>
    /\ last.outcome = "IGNORED"
    /\ 1 \in DOMAIN MANAGED_CHANNELS
    /\ BULK_APPROVAL_MODE = (1 :> FALSE)
    /\ 1 \in BLOCKED_USERS

-----------------------------------------------------------------------------
(* Auto-posting, under AutoPostSpec *)

\* C32 (as claimed): whenever auto_post_job picks an image (the channel is
\* enabled and the list it uses is not empty), the stored index of the
\* channel is a position of that list, 0 <= index < length; and the index
\* of a channel moves only when a post to it has succeeded, by one modulo
\* the length of the list the job posts from.
C32_IndexWithinList ==
    [][ /\ ( /\ last'.op = "auto_post"
             /\ last'.outcome \in {"SENDING", "INDEX_ERROR"} )
           => LET idx == IndexFor(last'.chat)
                  images == ImagesFor(last'.chat)
              IN  0 <= idx /\ idx < Len(images)
        /\ \A c \in Chats :
              IndexFor(c)' # IndexFor(c)
              => /\ last'.op = "auto_post"
                 /\ last'.chat = c
                 /\ last'.outcome = "POSTED"
                 /\ IndexFor(c)' = (IndexFor(c) + 1) % Len(ImagesOf(c)) ]_vars

-----------------------------------------------------------------------------
(* User tracking, under BulkSpec and ImportSpec *)

\* The calls of a handler that returned
Returned(calls) == SelectSeq(calls, LAMBDA c : c.ok)

\* C33 (as claimed): when handle_bulk_file has processed a file, it made one
\* approve call per valid id of the file; the approved count it reports is
\* the number of those calls that returned, whether or not the bot has seen
\* the user before, and approved + failed is the number of valid ids.
C33_ApprovedCountsApproves ==
    [][ ( last'.op = "bulk_file" /\ last'.outcome = "DONE" )
        => /\ last'.report.approved = Len(Returned(last'.calls))
           /\ last'.report.approved + last'.report.failed = Len(last'.calls)
      ]_vars

\* The users an import run has sent an invite to
Invited(calls) == { calls[i].user : i \in DOMAIN calls }

\* C34 (as claimed): import_users sends invites only to tracked users who
\* are not blocked, have no entry for the target channel, and have status
\* 'approved' in the source channel given (in at least one channel when no
\* source is given); no user gets two invites in one run.
C34_OnlyApprovedImported ==
    [][ last'.op = "import_users"
        => /\ \A u \in Invited(last'.calls) :
                 /\ u \in DOMAIN USER_DATABASE
                 /\ u \notin BLOCKED_USERS
                 /\ last'.chat \notin DOMAIN USER_DATABASE[u]
                 /\ IF last'.text = << >>
                    THEN HasApproved(USER_DATABASE[u])
                    ELSE /\ last'.text[1] \in DOMAIN USER_DATABASE[u]
                         /\ USER_DATABASE[u][last'.text[1]] = "approved"
           /\ Cardinality(Invited(last'.calls)) = Len(last'.calls)
      ]_vars

-----------------------------------------------------------------------------
(* Await by await, under AwaitSpec *)

\* C25 (as claimed): in an execution of issuance, resend or verification no
\* await of a platform call lies between two accesses to the shared maps:
\* once the handler has read or written PENDING_VERIFICATIONS, BLOCKED_USERS
\* or BULK_APPROVAL_MODE and has then awaited a call, it reads and writes
\* them no more.
C25_AccessesUninterrupted ==
    \A u \in Users :
        running[u].op \in {"join", "resend", "code"} => ~running[u].split

-----------------------------------------------------------------------------
(* Two users, under PairSpec *)

\* What the maps hold of a user (the record, block-list membership, the
\* awaiting-code flag, the verified chats) and where the handler of its
\* update stands
SliceOf(user_id) ==
    [ record   |-> IF HasRecord(user_id)
                   THEN << PENDING_VERIFICATIONS[user_id] >> ELSE << >>,
      blocked  |-> user_id \in BLOCKED_USERS,
      awaiting |-> awaiting_code[user_id],
      verified |-> VerifiedOf(user_id),
      handler  |-> running[user_id] ]

\* The positions of a handler: "done", or the platform call it awaits
PairPcs ==
    { "done", "approve_bulk", "decline", "get_chat", "send_message", "answer",
      "edit", "edit_no_pending", "reply_no_pending", "reply_then_decline",
      "approve", "reply_incorrect", "reply_verified", "reply_error" }

\* The outcome of a step of the handler of user_id's update, aspect by
\* aspect: where the handler stands (the branch taken, the call it makes
\* next), the attempts counted in the record (-1: no record), the
\* awaiting-code flag, block-list membership, the number of verified chats
Outcomes(aspect) ==
    CASE aspect = "pc" -> { [aspect |-> aspect, pc |-> p] : p \in PairPcs }
      [] aspect = "attempts" ->
            { [aspect |-> aspect, n |-> n] : n \in -1..AttemptsCap }
      [] aspect \in {"awaiting", "blocked"} ->
            { [aspect |-> aspect, on |-> o] : o \in BOOLEAN }
      [] aspect = "verified" ->
            { [aspect |-> aspect, n |-> n] : n \in 0..MaxVerified }

Aspects == {"pc", "attempts", "awaiting", "blocked", "verified"}

\* The state shows the outcome x for user_id
Shows(user_id, x) ==
    CASE x.aspect = "pc" -> running[user_id].pc = x.pc
      [] x.aspect = "attempts" ->
            x.n = IF HasRecord(user_id)
                  THEN PENDING_VERIFICATIONS[user_id].attempts ELSE -1
      [] x.aspect = "awaiting" -> awaiting_code[user_id] = x.on
      [] x.aspect = "blocked" -> (user_id \in BLOCKED_USERS) = x.on
      [] x.aspect = "verified" -> Len(VerifiedOf(user_id)) = x.n

\* The update e of user_id, handled now, would take its handler to x
BeginsInto(user_id, e, x) == ENABLED (Begins(user_id, e) /\ Shows(user_id, x)')

\* The handler suspended for user_id, resumed now with ret, would go on to x
ResumesInto(user_id, ret, x) ==
    ENABLED (Resumes(user_id, ret) /\ Shows(user_id, x)')

\* The step taken has written to the maps the handlers share: the
\* verification map, the block list, the awaiting-code flags, the verified
\* chats, the user database
MapsWritten ==
    ~UNCHANGED << PENDING_VERIFICATIONS, BLOCKED_USERS, awaiting_code,
                  VERIFIED_FOR_CHANNELS, USER_DATABASE, pending_keys,
                  database_keys >>

=============================================================================
